---- MODULE Spec2Model ----
(***************************************************************************)
(* Bundle composition and configuration synthesis of magepack:             *)
(*   - the bundle classifier   (lib/generate/extractCommonBundle.js)       *)
(*   - the bundle compiler     (lib/bundle/processor.js)                   *)
(*   - the configuration merger (lib/bundle.js, injectConfigIntoMain)      *)
(*   - the fragment synthesis  (lib/bundle.js, buildRequireConfigContent)  *)
(*   - the run over the locales (lib/bundle.js, default export)            *)
(*   - the module transformer  (lib/bundle/moduleWrapper.js)               *)
(*   - the crawler's network wait and request interceptor                  *)
(*     (lib/generate/waitForNetworkStability.js, blockMagepack.js)         *)
(* Module names, paths and file contents are JavaScript strings and are    *)
(* modelled as TLA+ strings; regular expressions are evaluated character   *)
(* by character.                                                           *)
(***************************************************************************)
EXTENDS Integers, Sequences, FiniteSets, TLC

VARIABLES
    bundles,        \* classifier: the page bundles handed to the classifier (mutated in place)
    alwaysCommon,   \* classifier: the module names the always-common override names
    discovery,      \* history: the page bundles as they were handed in
    config,         \* the bundle definitions of magepack.config.js: what the classifier
                    \* returned and the compiler reads; <<>> before classification
    disk,           \* compiler: the files that exist below the locale directory
    mapFile,        \* compiler: requirejs-map(.min).js: "absent", "valid" or "malformed"
    options,        \* compiler: the CLI options {minify, minifyStrategy, sourcemap}
    isMinifyOn,     \* compiler: the minification mode of the locale
    terser,         \* compiler: whether the minifier will throw ("throws") or not ("ok")
    magepack,       \* compiler: the files written below <locale>/magepack, name -> content
    runs,           \* compiler: what each processBundle call did, bundle index -> record
    configFiles,    \* merger: the requirejs-config files that exist, name -> content
    mergeLog,       \* history: the merges performed, in order
    injections,     \* history: the calls of the merger, in order
    fragmentLog,    \* history: the configuration fragments synthesized, in order
    entry,          \* run: the revision of the default export of lib/bundle.js that runs
    configIsArray,  \* run: whether magepack.config.js exports an array
    localeMinified, \* run: locale -> whether its requirejs-config.min.js exists
    pc,             \* run: locale -> how far its pipeline is
    modes,          \* run: locale -> the minification mode its pipeline computed
    fsLog,          \* history: the filesystem mutations of the run, in order
    exit,           \* run: how the run ended, with the failure count it reported
    transformIn,    \* transformer: the module handed over (name, contents, path)
    transformOut,   \* transformer: what the wrapper returned for it
    clock,          \* crawler: Date.now(), in units of the model
    includeResourceTypes, \* wait: the option of that name (empty: not given)
    requests,       \* crawler: request -> its url, resource type and _requestId
    network,        \* crawler: request -> its state in the browser, and whether
                    \*          the options of the wait make it a counted one
    latestStart,    \* crawler: when the browser last started a counted request
    inflight,       \* wait: the keys of the requests counted as in flight
    lastRequestStartedAt, \* wait: when the last counted request started
    idleTimer,      \* wait: when the idle timer is due (NoTimer: not armed)
    timeout,        \* wait: when the hard timeout is due (NoTimer: not armed)
    listening,      \* wait: the three page listeners are attached
    done,           \* wait: how donePromise is settled: the moment, the counted
                    \*       requests then in flight, the time since the last
                    \*       counted start, and the calls of resolve and reject
    interception    \* interceptor: request -> its url, how far its handler is,
                    \*              the methods it invoked and those that threw

vars == <<bundles, alwaysCommon, discovery, config, disk, mapFile, options, isMinifyOn, terser, magepack, runs,
          configFiles, mergeLog, injections, fragmentLog,
          entry, configIsArray, localeMinified, pc, modes, fsLog, exit,
          transformIn, transformOut,
          clock, includeResourceTypes, requests, network, latestStart, inflight,
          lastRequestStartedAt, idleTimer, timeout, listening, done, interception>>

classifierVars == <<bundles, alwaysCommon, discovery>>
compilerVars == <<disk, mapFile, options, isMinifyOn, terser, magepack, runs>>
mergerVars == <<configFiles, mergeLog, injections, fragmentLog>>
runVars == <<entry, configIsArray, localeMinified, pc, modes, fsLog, exit>>
transformVars == <<transformIn, transformOut>>
waitVars == <<includeResourceTypes, inflight, lastRequestStartedAt, idleTimer, timeout,
              listening, done>>
crawlVars == <<clock, requests, network, latestStart, waitVars, interception>>

(***************************************************************************)
(* Bounds of the model.                                                    *)
(***************************************************************************)
MaxPageBundles == 3     \* page bundles of a discovery map
MaxOccurrences == 4     \* module occurrences of a discovery map, over all its page bundles
MaxMerges == 3          \* calls of the merger on the configuration files of one locale
MaxConfigBundles == 2   \* bundle definitions of a hand-written configuration
MaxFragments == 2       \* fragments synthesized from one configuration
MaxLocales == 2         \* locales of one run
MaxStatements == 2      \* statements of a script
MaxNested == 1          \* definition calls inside one factory
MaxRequests == 2        \* requests the page issues while it is watched
MaxIntercepted == 2     \* requests the interceptor is handed
MaxClock == 4           \* the time the clock is followed for
idleMs == 2             \* the option idleMs, in units of the clock
timeoutMs == 3          \* the option timeoutMs, in units of the clock

(***************************************************************************)
(* JavaScript string primitives.                                           *)
(***************************************************************************)
\* s.charAt(i - 1): the empty string outside the string.
CharAt(s, i) == IF 1 <= i /\ i <= Len(s) THEN SubSeq(s, i, i) ELSE ""

StartsWithAt(s, i, p) ==
    /\ i + Len(p) - 1 <= Len(s)
    /\ SubSeq(s, i, i + Len(p) - 1) = p

StartsWith(s, p) == StartsWithAt(s, 1, p)

EndsWith(s, p) ==
    /\ Len(p) <= Len(s)
    /\ SubSeq(s, Len(s) - Len(p) + 1, Len(s)) = p

\* String.prototype.indexOf from position `from` (1-based); 0 when absent.
RECURSIVE IndexOfFrom(_, _, _)
IndexOfFrom(s, p, from) ==
    IF from + Len(p) - 1 > Len(s) THEN 0
    ELSE IF SubSeq(s, from, from + Len(p) - 1) = p THEN from
    ELSE IndexOfFrom(s, p, from + 1)

IndexOf(s, p) == IndexOfFrom(s, p, 1)

Includes(s, p) == IndexOf(s, p) # 0

UpperChars == "ABCDEFGHIJKLMNOPQRSTUVWXYZ"
LowerChars == "abcdefghijklmnopqrstuvwxyz"
DigitChars == "0123456789"

Chars(s) == {SubSeq(s, i, i) : i \in 1..Len(s)}

\* The character classes [A-Z] and [a-zA-Z0-9].
UpperSet == Chars(UpperChars)
AlnumSet == Chars(UpperChars) \cup Chars(LowerChars) \cup Chars(DigitChars)

IsUpper(c) == c \in UpperSet
IsAlnum(c) == c \in AlnumSet

LowerOf == [c \in UpperSet |-> CharAt(LowerChars, IndexOf(UpperChars, c))]

LowerChar(c) == IF c \in UpperSet THEN LowerOf[c] ELSE c

RECURSIVE ToLowerCase(_)
ToLowerCase(s) ==
    IF s = "" THEN "" ELSE LowerChar(CharAt(s, 1)) \o ToLowerCase(SubSeq(s, 2, Len(s)))

\* The end of the longest run of [a-zA-Z0-9] that starts at i (i - 1 when there is none).
RECURSIVE AlnumRunEnd(_, _)
AlnumRunEnd(s, i) ==
    IF i <= Len(s) /\ IsAlnum(CharAt(s, i)) THEN AlnumRunEnd(s, i + 1) ELSE i - 1

\* Array.prototype.join
RECURSIVE Join(_, _)
Join(parts, sep) ==
    IF Len(parts) = 0 THEN ""
    ELSE IF Len(parts) = 1 THEN parts[1]
    ELSE parts[1] \o sep \o Join(Tail(parts), sep)

\* The elements of a sequence, as a set.
Range(seq) == {seq[i] : i \in 1..Len(seq)}

\* Keeps the first occurrence of every element, in order.
RECURSIVE FirstSeen(_)
FirstSeen(seq) ==
    IF Len(seq) = 0 THEN <<>>
    ELSE LET init == FirstSeen(SubSeq(seq, 1, Len(seq) - 1))
             last == seq[Len(seq)]
         IN  IF last \in Range(init) THEN init ELSE Append(init, last)

RECURSIVE Flatten(_)
Flatten(seqs) ==
    IF Len(seqs) = 0 THEN <<>> ELSE Head(seqs) \o Flatten(Tail(seqs))

(***************************************************************************)
(* Bundle definitions: {name, modules}.  A modules object is an ordered    *)
(* mapping logicalId -> hinted path, modelled as a sequence of             *)
(* [id, path] records with distinct ids (Object.keys order is insertion    *)
(* order for non-numeric keys).                                            *)
(***************************************************************************)
Keys(modules) == [i \in 1..Len(modules) |-> modules[i].id]

HasKey(modules, id) == \E i \in 1..Len(modules) : modules[i].id = id

Lookup(modules, id) == modules[CHOOSE i \in 1..Len(modules) : modules[i].id = id].path

(***************************************************************************)
(* lib/generate/extractCommonBundle.js                                     *)
(***************************************************************************)
MIN_USAGE_THRESHOLD == 3

CRITICAL_EXACT_MODULES ==
    { "Magento_PageCache/js/form-key-provider",
      "Magento_Theme/js/responsive",
      "Magento_Theme/js/theme",
      "Magento_Translation/js/mage-translation-dictionary",
      "Magento_Ui/js/core/app",
      "Magento_Ui/js/modal/modal" }

\* pattern.test(name) for each of the nine regular expressions, in source order.
CRITICAL_PATTERN_MODULES(name) ==
    << StartsWith(name, "mage/")
         /\ ~StartsWithAt(name, 6, "calendar") /\ ~StartsWithAt(name, 6, "gallery"),
       StartsWith(name, "requirejs/"),
       name = "text",
       name = "domReady",
       name \in {"jquery/jquery.js", "jquery/jquery.min.js"},
       StartsWith(name, "jquery/jquery-migrate"),
       StartsWith(name, "jquery/jquery-storageapi"),
       name = "underscore",
       name = "knockoutjs/knockout" >>

\* /^[A-Z][a-zA-Z0-9]+_[A-Z][a-zA-Z0-9]+\//.test(name)
MAGENTO_MODULE_REGEX(name) ==
    LET e1 == AlnumRunEnd(name, 2)
        e2 == AlnumRunEnd(name, e1 + 3)
    IN  /\ Len(name) >= 1 /\ IsUpper(CharAt(name, 1))
        /\ e1 >= 2
        /\ CharAt(name, e1 + 1) = "_"
        /\ IsUpper(CharAt(name, e1 + 2))
        /\ e2 >= e1 + 3
        /\ CharAt(name, e2 + 1) = "/"

cleanModuleName(moduleName) ==
    LET bang == IndexOf(moduleName, "!")
        noPlugin == IF bang >= 2
                    THEN SubSeq(moduleName, bang + 1, Len(moduleName))
                    ELSE moduleName
    IN  IF EndsWith(noPlugin, ".js")
        THEN SubSeq(noPlugin, 1, Len(noPlugin) - 3)
        ELSE noPlugin

isCriticalInfrastructure(cleanName) ==
    \/ cleanName \in CRITICAL_EXACT_MODULES
    \/ LET tests == CRITICAL_PATTERN_MODULES(cleanName)
       IN  \E k \in 1..Len(tests) : tests[k]

\* /\.(html|json)$/i.test(name)
IsTemplateOrJson(name) ==
    LET lower == ToLowerCase(name)
    IN  EndsWith(lower, ".html") \/ EndsWith(lower, ".json")

getTargetBundleType_CriticalFirst(cleanName) ==
    IF isCriticalInfrastructure(cleanName) THEN "vendor"
    ELSE IF IsTemplateOrJson(cleanName) THEN "common"
    ELSE IF MAGENTO_MODULE_REGEX(cleanName) THEN "common"
    ELSE "vendor"

getTargetBundleType(cleanName) ==
    IF IsTemplateOrJson(cleanName) THEN "common"
    ELSE IF isCriticalInfrastructure(cleanName) THEN "vendor"
    ELSE IF MAGENTO_MODULE_REGEX(cleanName) THEN "common"
    ELSE "vendor"

\* The always-common override of the configuration.
isCommon(moduleName) == moduleName \in alwaysCommon

\* STEP 1: usage count per module and first-seen order across the bundles.
usageCounts(bs, moduleName) ==
    Cardinality({i \in 1..Len(bs) : HasKey(bs[i].modules, moduleName)})

discoveryOrder(bs) ==
    FirstSeen(Flatten([i \in 1..Len(bs) |-> Keys(bs[i].modules)]))

\* STEP 2: the decision to extract a module.
ShouldExtract_NotForced(bs, moduleName) ==
    \/ usageCounts(bs, moduleName) >= MIN_USAGE_THRESHOLD
    \/ isCommon(moduleName)

ShouldExtract(bs, moduleName) ==
    LET cleanName == cleanModuleName(moduleName)
        isForced == isCriticalInfrastructure(cleanName)
        isShared == usageCounts(bs, moduleName) >= MIN_USAGE_THRESHOLD
        isConfigured == isCommon(moduleName)
    IN  isForced \/ isShared \/ isConfigured

SourceBundle_Last(bs, moduleName) ==
    LET found == {i \in 1..Len(bs) : HasKey(bs[i].modules, moduleName)}
    IN  IF found = {} THEN 0 ELSE CHOOSE i \in found : \A j \in found : i >= j

\* bundles.find((b) => b.modules[moduleName]): the first bundle with a truthy path.
SourceBundle(bs, moduleName) ==
    LET found == {i \in 1..Len(bs) :
                     HasKey(bs[i].modules, moduleName)
                     /\ Lookup(bs[i].modules, moduleName) # ""}
    IN  IF found = {} THEN 0 ELSE CHOOSE i \in found : \A j \in found : i <= j

\* STEP 2: the modules routed to one shared bundle, in discovery order.
Routed(bs, targetType) ==
    LET extracted == SelectSeq(discoveryOrder(bs),
                         LAMBDA m : /\ ShouldExtract(bs, m)
                                    /\ SourceBundle(bs, m) # 0
                                    /\ getTargetBundleType(cleanModuleName(m)) = targetType)
    IN  [k \in 1..Len(extracted) |->
            [id |-> extracted[k],
             path |-> Lookup(bs[SourceBundle(bs, extracted[k])].modules, extracted[k])]]

\* STEP 3: a page bundle without the modules moved to vendor or common.
Cleaned_Kept(bundle, keysToRemove) == bundle

Cleaned(bundle, keysToRemove) ==
    [bundle EXCEPT !.modules = SelectSeq(bundle.modules, LAMBDA e : e.id \notin keysToRemove)]

\* The default export: [vendor, common, ...bundles].
extractCommonBundle(bs) ==
    LET vendorModules == Routed(bs, "vendor")
        commonModules == Routed(bs, "common")
        keysToRemove == Range(Keys(vendorModules)) \cup Range(Keys(commonModules))
    IN  << [name |-> "vendor", modules |-> vendorModules],
           [name |-> "common", modules |-> commonModules] >>
        \o [i \in 1..Len(bs) |-> Cleaned(bs[i], keysToRemove)]

(***************************************************************************)
(* lib/bundle/moduleMapResolver.js                                         *)
(***************************************************************************)
\* config.config.baseUrlInterceptor of a valid requirejs-map file.
BaseUrlInterceptor == [p \in {"slick"} |-> "version1"]

\* path.join of two relative segments.
PathJoin(a, b) == a \o "/" \o b

defaultModulePath(modulePath) == modulePath

mappedModulePath(modulePath, map) ==
    IF modulePath \notin DOMAIN map
    THEN defaultModulePath(modulePath)
    ELSE PathJoin(map[modulePath], modulePath)

\* The resolver createPathResolver returns, applied to modulePath.  Paths are
\* kept relative to the locale directory.
resolveMap(modulePath) ==
    IF mapFile = "valid"
    THEN mappedModulePath(modulePath, BaseUrlInterceptor)
    ELSE defaultModulePath(modulePath)

(***************************************************************************)
(* lib/bundle/processor.js                                                 *)
(***************************************************************************)
SENSITIVE_PATTERNS == <<"paypal", "braintree", "adyen", "stripe", "amazon">>

\* /\.(html|json|css|txt|svg)$/i.test(fullPath)
HasStaticExtension(fullPath) ==
    LET lower == ToLowerCase(fullPath)
    IN  \E ext \in {".html", ".json", ".css", ".txt", ".svg"} : EndsWith(lower, ext)

\* fs.access(path): resolves when the file exists, rejects with ENOENT naming it.
Access(path) == path \in disk

\* The order of the two variants of a JS module under a minification mode.
primaryPath_StandardFirst(basePath, minifyOn) == basePath \o ".js"

primaryPath(basePath, minifyOn) ==
    IF minifyOn THEN basePath \o ".min.js" ELSE basePath \o ".js"

fallbackPath(basePath, minifyOn) ==
    IF minifyOn THEN basePath \o ".js" ELSE basePath \o ".min.js"

\* resolveFile: [ok |-> TRUE, path] or the rejection, with the paths its error names.
resolveFile(moduleName, modulePath, minifyOn) ==
    LET fullPath == modulePath
        isStatic == \/ StartsWith(moduleName, "text!")
                    \/ StartsWith(moduleName, "domReady!")
                    \/ HasStaticExtension(fullPath)
        basePath == IF EndsWith(fullPath, ".js")
                    THEN SubSeq(fullPath, 1, Len(fullPath) - 3)
                    ELSE fullPath
        primary == primaryPath(basePath, minifyOn)
        fallback == fallbackPath(basePath, minifyOn)
    IN  IF isStatic
        THEN IF Access(fullPath)
             THEN [ok |-> TRUE, path |-> fullPath, tried |-> <<fullPath>>, named |-> {}]
             ELSE [ok |-> FALSE, path |-> "", tried |-> <<fullPath>>, named |-> {fullPath}]
        ELSE IF Access(primary)
             THEN [ok |-> TRUE, path |-> primary, tried |-> <<primary>>, named |-> {}]
        ELSE IF Access(fallback)
             THEN [ok |-> TRUE, path |-> fallback,
                   tried |-> <<primary, fallback>>, named |-> {}]
        ELSE [ok |-> FALSE, path |-> "",
              tried |-> <<primary, fallback>>, named |-> {fallback}]

\* pattern.test(name) for one of the case-insensitive SENSITIVE_PATTERNS.
IsSensitive(name) ==
    LET lower == ToLowerCase(name)
    IN  \E k \in 1..Len(SENSITIVE_PATTERNS) : Includes(lower, SENSITIVE_PATTERNS[k])

hasSensitiveModules(moduleNames) ==
    \E i \in 1..Len(moduleNames) : IsSensitive(moduleNames[i])

\* fs.readFile(absPath, 'utf8') of an existing file.
ReadFile(absPath) == "/*" \o absPath \o "*/"

\* The transformer: one named module definition per member.
moduleWrapper(moduleName, content, absPath) ==
    "define('" \o moduleName \o "'," \o content \o ");"

\* lib/bundle.js buildTerserOptions: an unknown strategy falls back to safe.
buildTerserOptions(strategy, sourcemap) ==
    [strategy |-> IF strategy = "aggressive" THEN "aggressive" ELSE "safe",
     compress |-> TRUE, mangle |-> TRUE, beautify |-> FALSE, sourceMap |-> sourcemap]

\* terser's minify(sources, terserOptions) when it does not throw.
MinifyCode(sourceTexts, terserOptions) ==
    (IF terserOptions.compress THEN terserOptions.strategy ELSE "beautify")
        \o "{" \o Join(sourceTexts, "") \o "}"

MinifyMap(sourceTexts) == "map{" \o Join(sourceTexts, "") \o "}"

\* STEP 1: the per-member attempts of the collection loop, in bundle order:
\* the member, the mapped path handed to resolveFile, the resolution, and the
\* wrapped source ("" when the member is skipped).
Attempts(bundle, minifyOn) ==
    [k \in 1..Len(bundle.modules) |->
        LET moduleName == bundle.modules[k].id
            mappedPath == resolveMap(bundle.modules[k].path)
            res == resolveFile(moduleName, mappedPath, minifyOn)
        IN  [id |-> moduleName,
             mappedPath |-> mappedPath,
             res |-> res,
             source |-> IF res.ok
                        THEN moduleWrapper(moduleName, ReadFile(res.path), res.path)
                        ELSE ""]]

\* The members the loop collected into `sources`, in insertion order.
Collected(attempts) == SelectSeq(attempts, LAMBDA a : a.res.ok)

\* How a call ends: it throws when the path resolver cannot be built, returns
\* early on an empty bundle, and writes the bundle otherwise.
Outcome_NoEmptyCheck(mapState, successCount) ==
    IF mapState = "malformed" THEN "rejected" ELSE "written"

Outcome(mapState, successCount) ==
    IF mapState = "malformed" THEN "rejected"
    ELSE IF successCount = 0 THEN "skipped"
    ELSE "written"

\* STEP 2: the minification strategy.
requestedStrategy(opts) == IF opts.minifyStrategy # "" THEN opts.minifyStrategy ELSE "safe"

effectiveStrategy_Requested(containsSensitive, requested) == requested

effectiveStrategy(containsSensitive, requested) ==
    IF containsSensitive THEN "safe" ELSE requested

shouldMinifyContent(opts, strategy) == opts.minify \/ strategy = "aggressive"

\* The options handed to terser: without minification only a beautified
\* pass-through that yields the source map.
TerserOptions(opts, strategy) ==
    LET built == buildTerserOptions(strategy, opts.sourcemap)
    IN  IF shouldMinifyContent(opts, strategy)
        THEN built
        ELSE [built EXCEPT !.compress = FALSE, !.mangle = FALSE, !.beautify = TRUE]

NoTerserOptions ==
    [strategy |-> "", compress |-> FALSE, mangle |-> FALSE, beautify |-> FALSE,
     sourceMap |-> FALSE]

\* STEP 3: the content of the bundle file.
FinalContent_NoFallback(callsTerser, terserState, sourceTexts, terserOptions) ==
    IF callsTerser
    THEN IF terserState = "ok" THEN MinifyCode(sourceTexts, terserOptions) ELSE ""
    ELSE Join(sourceTexts, "\n")

FinalContent(callsTerser, terserState, sourceTexts, terserOptions) ==
    IF callsTerser
    THEN IF terserState = "ok"
         THEN MinifyCode(sourceTexts, terserOptions)
         ELSE Join(sourceTexts, "\n")
    ELSE Join(sourceTexts, "\n")

\* service/compressor.js compressFile: the .gz and .br siblings of a written file.
Gzip(content) == "gzip{" \o content \o "}"
Brotli(content) == "brotli{" \o content \o "}"

\* processBundle: what one call does, as a record:
\*   status         "rejected" (the call throws), "skipped" (empty bundle) or "written"
\*   attempts       the members in bundle order, each with its resolution
\*   sourceIds      Object.keys(sources): the members concatenated, in order
\*   terserCalled, terserOptions, terserThrew   the call of minify, if any
\*   files          the files written below <locale>/magepack, name -> content
processBundle(bundle, opts, minifyOn) ==
    LET outputExt == IF minifyOn THEN ".min.js" ELSE ".js"
        bundleFilename == "bundle-" \o bundle.name \o outputExt
        moduleNames == Keys(bundle.modules)
        attempts == IF mapFile = "malformed" THEN <<>> ELSE Attempts(bundle, minifyOn)
        collected == Collected(attempts)
        sourceIds == [k \in 1..Len(collected) |-> collected[k].id]
        sourceTexts == [k \in 1..Len(collected) |-> collected[k].source]
        status == Outcome(mapFile, Len(collected))
        containsSensitive == hasSensitiveModules(moduleNames)
        strategy == effectiveStrategy(containsSensitive, requestedStrategy(opts))
        callsTerser == shouldMinifyContent(opts, strategy) \/ opts.sourcemap
        terserOptions == TerserOptions(opts, strategy)
        finalContent == FinalContent(callsTerser, terser, sourceTexts, terserOptions)
        writesMap == callsTerser /\ terser = "ok" /\ opts.sourcemap
        names == {bundleFilename, bundleFilename \o ".gz", bundleFilename \o ".br"}
                 \cup (IF writesMap THEN {bundleFilename \o ".map"} ELSE {})
        files == [f \in names |->
                    IF f = bundleFilename THEN finalContent
                    ELSE IF f = bundleFilename \o ".gz" THEN Gzip(finalContent)
                    ELSE IF f = bundleFilename \o ".br" THEN Brotli(finalContent)
                    ELSE MinifyMap(sourceTexts)]
    IN  IF status = "written"
        THEN [status |-> status, filename |-> bundleFilename, attempts |-> attempts,
              sourceIds |-> sourceIds,
              terserCalled |-> callsTerser,
              terserOptions |-> IF callsTerser THEN terserOptions ELSE NoTerserOptions,
              terserThrew |-> callsTerser /\ terser = "throws",
              files |-> files]
        ELSE [status |-> status, filename |-> bundleFilename, attempts |-> attempts,
              sourceIds |-> <<>>,
              terserCalled |-> FALSE, terserOptions |-> NoTerserOptions,
              terserThrew |-> FALSE,
              files |-> <<>>]

\* fs.writeFile of every file of `files` into the directory `dir`.
WriteAll(dir, files) ==
    [f \in DOMAIN dir \cup DOMAIN files |-> IF f \in DOMAIN files THEN files[f] ELSE dir[f]]

\* One processBundle call of processLocale's Promise.all, for the bundle at index i.
ProcessBundle(i) ==
    /\ i \in 1..Len(config)
    /\ i \notin DOMAIN runs
    /\ LET run == processBundle(config[i], options, isMinifyOn)
       IN  /\ runs' = [j \in DOMAIN runs \cup {i} |-> IF j = i THEN run ELSE runs[j]]
           /\ magepack' = WriteAll(magepack, run.files)
    /\ UNCHANGED <<config, disk, mapFile, options, isMinifyOn, terser>>
    /\ UNCHANGED <<classifierVars, mergerVars, runVars, transformVars, crawlVars>>

(***************************************************************************)
(* lib/bundle.js: the synthesis of the configuration fragment.  The file   *)
(* exists in three revisions that differ in the bundle ID and in the paths *)
(* map: buildRequireConfigContent (IDs without extension, a paths entry    *)
(* when ID and path differ), buildRequireConfigContentForced (the same     *)
(* IDs, a paths entry always) and buildRequireConfigContentUnified (the ID *)
(* is the path, no paths entry).                                           *)
(***************************************************************************)
\* f.replace(/\.js$/, '')
StripJsExtension(f) == IF EndsWith(f, ".js") THEN SubSeq(f, 1, Len(f) - 3) ELSE f

\* JSON.stringify of a string without characters to escape, of an array of
\* strings, and of an object given as a sequence of [key, value] records whose
\* values are already stringified.
JsonString(str) == "\"" \o str \o "\""

JsonArray(strs) == "[" \o Join([k \in 1..Len(strs) |-> JsonString(strs[k])], ",") \o "]"

JsonObject(entries) ==
    "{" \o Join([k \in 1..Len(entries) |->
                    JsonString(entries[k].key) \o ":" \o entries[k].value], ",") \o "}"

\* The bundles config.forEach does not skip: !bundle || !bundle.name || !bundle.modules.
NamedBundles(cfg) == SelectSeq(cfg, LAMBDA bundle : bundle.name # "")

fileExt(minifyOn) == IF minifyOn THEN ".min" ELSE ""

bundleId(bundle) == "magepack/bundle-" \o bundle.name

bundlePath(bundle, minifyOn) == "magepack/bundle-" \o bundle.name \o fileExt(minifyOn)

\* bundles[bundleId] = moduleNames.map((f) => f.replace(/\.js$/, ''))
BundlesMap(cfg, ids) ==
    LET named == NamedBundles(cfg)
    IN  [k \in 1..Len(named) |->
            [key |-> ids[k],
             value |-> JsonArray([m \in 1..Len(named[k].modules) |->
                                     StripJsExtension(named[k].modules[m].id)])]]

\* The template literal the three revisions return.
ConfigContent(bundlesMap, pathsMap) ==
    "require.config({\n    bundles: " \o JsonObject(bundlesMap)
        \o ",\n    paths: " \o JsonObject(pathsMap) \o "\n});"

\* The paths map: an entry where the ID and the physical path differ.
paths(cfg, minifyOn) ==
    LET named == NamedBundles(cfg)
        differing == SelectSeq(named, LAMBDA b : bundleId(b) # bundlePath(b, minifyOn))
    IN  [k \in 1..Len(differing) |->
            [key |-> bundleId(differing[k]),
             value |-> JsonString(bundlePath(differing[k], minifyOn))]]

buildRequireConfigContent(cfg, minifyOn) ==
    LET named == NamedBundles(cfg)
    IN  ConfigContent(BundlesMap(cfg, [k \in 1..Len(named) |-> bundleId(named[k])]),
                      paths(cfg, minifyOn))

\* The paths map of the revision that forces the mapping: an entry per bundle.
pathsForced(cfg, minifyOn) ==
    LET named == NamedBundles(cfg)
    IN  [k \in 1..Len(named) |->
            [key |-> bundleId(named[k]),
             value |-> JsonString(bundlePath(named[k], minifyOn))]]

buildRequireConfigContentForced(cfg, minifyOn) ==
    LET named == NamedBundles(cfg)
    IN  ConfigContent(BundlesMap(cfg, [k \in 1..Len(named) |-> bundleId(named[k])]),
                      pathsForced(cfg, minifyOn))

\* The revision with unified IDs: the ID carries the extension, paths stays empty.
pathsUnified(cfg, minifyOn) == <<>>

buildRequireConfigContentUnified(cfg, minifyOn) ==
    LET named == NamedBundles(cfg)
    IN  ConfigContent(BundlesMap(cfg, [k \in 1..Len(named) |-> bundlePath(named[k], minifyOn)]),
                      pathsUnified(cfg, minifyOn))

\* The revisions, and the fragment and paths map each synthesizes.
Revisions == {"separate", "forced", "unified"}

Synthesized(revision, cfg, minifyOn) ==
    IF revision = "separate"
    THEN [revision |-> revision, minifyOn |-> minifyOn,
          paths |-> paths(cfg, minifyOn),
          text |-> buildRequireConfigContent(cfg, minifyOn)]
    ELSE IF revision = "forced"
    THEN [revision |-> revision, minifyOn |-> minifyOn,
          paths |-> pathsForced(cfg, minifyOn),
          text |-> buildRequireConfigContentForced(cfg, minifyOn)]
    ELSE [revision |-> revision, minifyOn |-> minifyOn,
          paths |-> pathsUnified(cfg, minifyOn),
          text |-> buildRequireConfigContentUnified(cfg, minifyOn)]

(***************************************************************************)
(* lib/bundle.js: the configuration merger                                 *)
(***************************************************************************)
startMarker == "/* MAGEPACK START */"
endMarker == "/* MAGEPACK END */"

REQUIREJS_CONFIG == "requirejs-config.js"
REQUIREJS_CONFIG_MIN == "requirejs-config.min.js"

IsWhitespace(c) == c \in {" ", "\n", "\t", "\r"}

\* String.prototype.trim
RECURSIVE TrimStart(_)
TrimStart(s) ==
    IF s # "" /\ IsWhitespace(CharAt(s, 1)) THEN TrimStart(SubSeq(s, 2, Len(s))) ELSE s

RECURSIVE TrimEnd(_)
TrimEnd(s) ==
    IF s # "" /\ IsWhitespace(CharAt(s, Len(s)))
    THEN TrimEnd(SubSeq(s, 1, Len(s) - 1))
    ELSE s

Trim(s) == TrimEnd(TrimStart(s))

\* mainConfig.replace(cleanRegex, '') with
\* cleanRegex = /\n?<startMarker>[\s\S]*?<endMarker>/g
cleanRegexReplace_Kept(s) == s

RECURSIVE cleanRegexReplace(_)
cleanRegexReplace(s) ==
    LET i == IndexOf(s, startMarker)
        j == IF i = 0 THEN 0 ELSE IndexOfFrom(s, endMarker, i + Len(startMarker))
        from == IF CharAt(s, i - 1) = "\n" THEN i - 1 ELSE i
    IN  IF i = 0 \/ j = 0
        THEN s
        ELSE SubSeq(s, 1, from - 1)
                 \o cleanRegexReplace(SubSeq(s, j + Len(endMarker), Len(s)))

\* lib/generate/blockMagepack.js: the body served for a requirejs-config*.js
\* request, originalContent.replace(/<START>[\s\S]*?<END>/g, '').
cleanedContent_Kept(originalContent) == originalContent

RECURSIVE cleanedContent(_)
cleanedContent(originalContent) ==
    LET i == IndexOf(originalContent, "/* MAGEPACK START */")
        j == IF i = 0 THEN 0
             ELSE IndexOfFrom(originalContent, "/* MAGEPACK END */",
                              i + Len("/* MAGEPACK START */"))
    IN  IF i = 0 \/ j = 0
        THEN originalContent
        ELSE SubSeq(originalContent, 1, i - 1)
                 \o cleanedContent(SubSeq(originalContent, j + Len("/* MAGEPACK END */"),
                                           Len(originalContent)))

\* The content injectConfigIntoMain writes for a file that holds mainConfig.
InjectedContent(mainConfig, newConfigContent) ==
    LET cleaned == cleanRegexReplace(mainConfig)
        injection == "\n" \o startMarker \o "\n" \o newConfigContent \o "\n" \o endMarker
    IN  Trim(cleaned) \o ";\n" \o injection

\* One pass of the try block on the file fileName of the directory `files`: a
\* missing target is skipped (ENOENT), an existing one is read, transformed
\* and written.
injectInto_Created(files, fileName, newConfigContent) ==
    [f \in DOMAIN files \cup {fileName} |->
        IF f # fileName THEN files[f]
        ELSE InjectedContent(IF f \in DOMAIN files THEN files[f] ELSE "", newConfigContent)]

injectInto(files, fileName, newConfigContent) ==
    IF fileName \notin DOMAIN files
    THEN files
    ELSE [files EXCEPT ![fileName] = InjectedContent(files[fileName], newConfigContent)]

\* The merges a call performs on `targets`, in order, each on the directory
\* the earlier ones left.
RECURSIVE Merges(_, _, _)
Merges(files, targets, newConfigContent) ==
    IF targets = <<>> THEN <<>>
    ELSE LET fileName == Head(targets)
             after == injectInto(files, fileName, newConfigContent)
             rest == Merges(after, Tail(targets), newConfigContent)
         IN  IF fileName \notin DOMAIN files THEN rest
             ELSE <<[file |-> fileName, fragment |-> newConfigContent,
                     before |-> files[fileName], after |-> after[fileName]]>> \o rest

RECURSIVE InjectAll(_, _, _)
InjectAll(files, targets, newConfigContent) ==
    IF targets = <<>> THEN files
    ELSE InjectAll(injectInto(files, Head(targets), newConfigContent),
                   Tail(targets), newConfigContent)

\* A call of the merger on `targets`.
InjectTargets(targets, newConfigContent) ==
    LET after == InjectAll(configFiles, targets, newConfigContent)
    IN  /\ configFiles' = after
        /\ mergeLog' = mergeLog \o Merges(configFiles, targets, newConfigContent)
        /\ injections' = Append(injections,
               [targets |-> targets, fragment |-> newConfigContent,
                before |-> configFiles, after |-> after])
        /\ fragmentLog' = fragmentLog

\* injectConfigIntoMain(localePath, isMinifyOn, newConfigContent): the target is
\* the configuration file of the mode.
injectConfigIntoMain(minifyOn, newConfigContent) ==
    LET fileName == IF minifyOn THEN REQUIREJS_CONFIG_MIN ELSE REQUIREJS_CONFIG
    IN  InjectTargets(<<fileName>>, newConfigContent)

\* injectConfigIntoMain(localePath, newConfigContent) of the revisions that
\* target both configuration files.
injectConfigIntoMainBoth(newConfigContent) ==
    InjectTargets(<<REQUIREJS_CONFIG, REQUIREJS_CONFIG_MIN>>, newConfigContent)

(***************************************************************************)
(* lib/utils/stripPlugin.js, lib/generate/collectModules.js                *)
(***************************************************************************)
\* moduleName.replace(/^[^!].+!/, ''): greedy, up to the last "!".
stripPlugin(moduleName) ==
    LET bangs == {i \in 3..Len(moduleName) : CharAt(moduleName, i) = "!"}
        last == CHOOSE i \in bangs : \A j \in bangs : j <= i
    IN  IF bangs # {} /\ CharAt(moduleName, 1) # "!"
        THEN SubSeq(moduleName, last + 1, Len(moduleName))
        ELSE moduleName

\* The hinted path collectModules records for a module: the URL of the module
\* without its plugin, relative to the locale directory.
HintedPath(moduleName) == stripPlugin(moduleName)

(***************************************************************************)
(* The inputs.                                                             *)
(***************************************************************************)
\* Page types, in the order their collectors run.
PageNames == <<"cms", "category", "product", "checkout", "cart">>

\* Module names of every kind the classification rules tell apart.
ModuleUniverse ==
    { "Magento_Ui/js/core/app",     \* critical by exact name, Vendor_Module shaped
      "text!mage/tpl.html",         \* critical by pattern, a template
      "Acme_Shop/js/view.js",       \* Vendor_Module shaped
      "slick" }                     \* a library

PipelineUniverse == {"Acme_Shop/js/view.js", "slick"}

\* The ordered module maps of at most n members over `universe`.
ModuleMaps(universe, n) ==
    LET lists == UNION {[1..k -> universe] : k \in 0..n}
        distinct == {l \in lists : \A a, b \in 1..Len(l) : l[a] = l[b] => a = b}
    IN  {[k \in 1..Len(l) |-> [id |-> l[k], path |-> HintedPath(l[k])]] : l \in distinct}

\* The sequences of `count` module maps that hold at most n members in all.
RECURSIVE ModuleMapLists(_, _, _)
ModuleMapLists(universe, count, n) ==
    IF count = 0 THEN {<<>>}
    ELSE UNION {{<<m>> \o rest : rest \in ModuleMapLists(universe, count - 1, n - Len(m))} :
                    m \in ModuleMaps(universe, n)}

\* The discovery maps: MaxPageBundles page bundles (a page may load nothing)
\* with at most MaxOccurrences module occurrences.
DiscoveryMaps(universe) ==
    {[i \in 1..MaxPageBundles |-> [name |-> PageNames[i], modules |-> ms[i]]] :
        ms \in ModuleMapLists(universe, MaxPageBundles, MaxOccurrences)}

DefaultOptions == [minify |-> FALSE, minifyStrategy |-> "", sourcemap |-> FALSE]

\* options as the CLI builds them; minifyStrategy "" stands for undefined.
OptionSets ==
    [minify : BOOLEAN, minifyStrategy : {"", "safe", "aggressive"}, sourcemap : BOOLEAN]

CompilerIdle ==
    /\ disk = {}
    /\ mapFile = "absent"
    /\ options = DefaultOptions
    /\ isMinifyOn = FALSE
    /\ terser = "ok"
    /\ magepack = <<>>
    /\ runs = <<>>

ClassifierIdle ==
    /\ bundles = <<>>
    /\ alwaysCommon = {}
    /\ discovery = <<>>

MergerIdle ==
    /\ configFiles = <<>>
    /\ mergeLog = <<>>
    /\ injections = <<>>
    /\ fragmentLog = <<>>

NoModule == [moduleName |-> "", content |-> "", modulePath |-> ""]

NotWrapped == [done |-> FALSE, text |-> ""]

TransformerIdle ==
    /\ transformIn = NoModule
    /\ transformOut = NotWrapped

NotExited == [status |-> "running", failed |-> 0]

NoTimer == -1

NotSettled == [state |-> "pending", at |-> 0, pending |-> {}, quiet |-> 0, calls |-> 0]

WaitIdle ==
    /\ clock = 0
    /\ includeResourceTypes = {}
    /\ requests = <<>>
    /\ network = <<>>
    /\ latestStart = 0
    /\ inflight = {}
    /\ lastRequestStartedAt = 0
    /\ idleTimer = NoTimer
    /\ timeout = NoTimer
    /\ listening = FALSE
    /\ done = NotSettled

CrawlerIdle == WaitIdle /\ interception = <<>>

RunIdle ==
    /\ TransformerIdle
    /\ CrawlerIdle
    /\ entry = "allSettled"
    /\ configIsArray = TRUE
    /\ localeMinified = <<>>
    /\ pc = <<>>
    /\ modes = <<>>
    /\ fsLog = <<>>
    /\ exit = NotExited

(***************************************************************************)
(* The classifier on every discovery map.                                  *)
(***************************************************************************)
\* Pages need not record a module under the same path: every page after the
\* first records its modules below a directory of its own.
PerPagePaths(bs) ==
    [i \in 1..Len(bs) |->
        [bs[i] EXCEPT !.modules =
            [k \in 1..Len(bs[i].modules) |->
                [bs[i].modules[k] EXCEPT !.path =
                    IF i = 1 THEN @ ELSE PageNames[i] \o "/" \o @]]]]

InitClassify ==
    /\ bundles \in {PerPagePaths(bs) : bs \in DiscoveryMaps(ModuleUniverse)}
    /\ alwaysCommon \in {{}, {"slick"}}
    /\ discovery = bundles
    /\ config = <<>>
    /\ CompilerIdle
    /\ MergerIdle
    /\ RunIdle

\* extractCommonBundle(bundles): the page bundles are mutated in place and the
\* returned list becomes the bundle configuration.
Classify ==
    /\ config = <<>>
    /\ bundles # <<>>
    /\ LET result == extractCommonBundle(bundles)
       IN  /\ config' = result
           /\ bundles' = SubSeq(result, 3, Len(result))
    /\ UNCHANGED <<alwaysCommon, discovery, compilerVars, mergerVars, runVars, transformVars, crawlVars>>

NextClassify == Classify

SpecClassify == InitClassify /\ [][NextClassify]_vars

(***************************************************************************)
(* Classification followed by the compilation of the returned bundles.     *)
(***************************************************************************)
PipelineDisk == {"Acme_Shop/js/view.js", "slick.min.js"}

InitPipeline ==
    /\ bundles \in DiscoveryMaps(PipelineUniverse)
    /\ alwaysCommon = {}
    /\ discovery = bundles
    /\ config = <<>>
    /\ disk \in {PipelineDisk, PipelineDisk \ {"slick.min.js"}}
    /\ mapFile = "absent"
    /\ options = DefaultOptions
    /\ isMinifyOn = FALSE
    /\ terser = "ok"
    /\ magepack = <<>>
    /\ runs = <<>>
    /\ MergerIdle
    /\ RunIdle

NextPipeline ==
    \/ Classify
    \/ \E i \in 1..Len(config) : ProcessBundle(i)

SpecPipeline == InitPipeline /\ [][NextPipeline]_vars

(***************************************************************************)
(* The compiler on hand-written bundle configurations.                     *)
(***************************************************************************)
Bundle(name, ids) ==
    [name |-> name, modules |-> [k \in 1..Len(ids) |-> [id |-> ids[k], path |-> HintedPath(ids[k])]]]

BundleConfigs ==
    { << Bundle("vendor", <<"slick">>),
         Bundle("common", <<"text!Acme_Shop/tpl.html", "Stripe_Pay/js/sdk.js">>) >>,
      << Bundle("vendor", <<"Stripe_Pay/js/sdk.js", "slick">>),
         Bundle("cms", <<>>) >>,
      << Bundle("cms", <<"text!Acme_Shop/tpl.html", "slick">>) >> }

DiskUniverse ==
    {"slick.js", "version1/slick.min.js", "Acme_Shop/tpl.html",
     "Stripe_Pay/js/sdk.js", "Stripe_Pay/js/sdk.min.js"}

InitBundle ==
    /\ ClassifierIdle
    /\ config \in BundleConfigs
    /\ disk \in SUBSET DiskUniverse
    /\ mapFile \in {"absent", "valid", "malformed"}
    /\ options \in OptionSets
    /\ isMinifyOn \in BOOLEAN
    /\ (options.minify => isMinifyOn)
    /\ terser \in {"ok", "throws"}
    /\ magepack = <<>>
    /\ runs = <<>>
    /\ MergerIdle
    /\ RunIdle

NextBundle == \E i \in 1..Len(config) : ProcessBundle(i)

SpecBundle == InitBundle /\ [][NextBundle]_vars

(***************************************************************************)
(* The merger on the loader-configuration files of one locale.             *)
(***************************************************************************)
\* What the host deployment leaves in a requirejs-config file, possibly
\* followed by the marker region of an earlier run.
HostContents == {"", "var a=1", "var a=1;", "var a=1;\n", "(function(){})()\n\n"}

EarlierRegion == startMarker \o "\nrequire.config({old});\n" \o endMarker

InitialContents ==
    HostContents
    \cup {h \o ";\n\n" \o EarlierRegion : h \in {"var a=1", "var a=1;"}}
    \cup {"var a=1;\n" \o EarlierRegion \o "\nvar b=2;"}

\* What requirejs-config.min.js holds: minified host content, possibly followed
\* by the marker region of an earlier run.
MinifiedContents == {"var a=1;", "var a=1;" \o ";\n\n" \o EarlierRegion}

\* The contents of the file fileName before the run.
ContentsOf(fileName) ==
    IF fileName = REQUIREJS_CONFIG_MIN THEN MinifiedContents ELSE InitialContents

\* The fragments buildRequireConfigContent hands to the merger.
Fragments == {"require.config({A});", "require.config({B});"}

InitMerge ==
    /\ ClassifierIdle
    /\ config = <<>>
    /\ CompilerIdle
    /\ \E present \in SUBSET {REQUIREJS_CONFIG, REQUIREJS_CONFIG_MIN} :
          /\ configFiles \in [present -> InitialContents]
          /\ \A f \in present : configFiles[f] \in ContentsOf(f)
    /\ mergeLog = <<>>
    /\ injections = <<>>
    /\ fragmentLog = <<>>
    /\ RunIdle

\* One run's injection: the mode of the run and the fragment are its inputs.
Inject ==
    /\ Len(injections) < MaxMerges
    /\ \E minifyOn \in BOOLEAN, newConfigContent \in Fragments :
          injectConfigIntoMain(minifyOn, newConfigContent)
    /\ UNCHANGED <<classifierVars, config, compilerVars, runVars, transformVars, crawlVars>>

\* One run's injection in the revisions that target both files.
InjectBoth ==
    /\ Len(injections) < MaxMerges
    /\ \E newConfigContent \in Fragments : injectConfigIntoMainBoth(newConfigContent)
    /\ UNCHANGED <<classifierVars, config, compilerVars, runVars, transformVars, crawlVars>>

NextMerge == Inject \/ InjectBoth

SpecMerge == InitMerge /\ [][NextMerge]_vars

(***************************************************************************)
(* The fragment synthesis on hand-written bundle configurations.           *)
(***************************************************************************)
\* Bundle definitions: shared and page bundles, one without modules, and one
\* without a name, which the synthesis skips.
ConfigBundles ==
    { Bundle("vendor", <<"slick">>),
      Bundle("cms", <<"Acme_Shop/js/view.js", "text!Acme_Shop/tpl.html">>),
      Bundle("common", <<>>),
      Bundle("", <<"slick">>) }

\* The configurations of at most MaxConfigBundles definitions with distinct names.
FragmentConfigs ==
    LET lists == UNION {[1..k -> ConfigBundles] : k \in 0..MaxConfigBundles}
    IN  {l \in lists : \A a, b \in 1..Len(l) : l[a].name = l[b].name => a = b}

InitFragment ==
    /\ ClassifierIdle
    /\ config \in FragmentConfigs
    /\ disk = {}
    /\ mapFile = "absent"
    /\ options = DefaultOptions
    /\ isMinifyOn \in BOOLEAN
    /\ terser = "ok"
    /\ magepack = <<>>
    /\ runs = <<>>
    /\ MergerIdle
    /\ RunIdle

\* const configContent = buildRequireConfigContent(config, isMinifyOn), in one
\* of the revisions.
BuildRequireConfigContent(revision) ==
    /\ Len(fragmentLog) < MaxFragments
    /\ fragmentLog' = Append(fragmentLog, Synthesized(revision, config, isMinifyOn))
    /\ UNCHANGED <<classifierVars, config, compilerVars, configFiles, mergeLog, injections,
                   runVars, transformVars, crawlVars>>

NextFragment == \E revision \in Revisions : BuildRequireConfigContent(revision)

SpecFragment == InitFragment /\ [][NextFragment]_vars

(***************************************************************************)
(* lib/bundle.js: the run over the deployed locales.  The default export   *)
(* exists in three revisions: "allSettled" starts processLocale for every  *)
(* locale at once and exits with 1 when a locale was rejected;             *)
(* "sequential" loops over the locales and logs what a locale throws;      *)
(* "validated" is the sequential loop behind validateConfig.  A locale is  *)
(* a number of 1..Len(pc); its pipeline is at                               *)
(*   "waiting"    the default export has not reached the locales,          *)
(*   "pending"    the pipeline is started,                                 *)
(*   "removed"    its magepack directory is removed,                       *)
(*   "cleaned"    its magepack directory is created anew,                  *)
(*   "detected"   its minification mode is computed,                       *)
(*   "rejected"   processLocale has rethrown (its promise is rejected),    *)
(*   "caught"     the loop has logged what the locale threw.               *)
(***************************************************************************)
Entries == {"allSettled", "sequential", "validated"}

Locales == DOMAIN pc

\* path.join(process.cwd(), 'pub/static/frontend', vendor, name, code): a string.
LocalePath(locale) == [isString |-> TRUE, value |-> locale]

\* [localePath]: the array every revision hands to checkMinifyOn.
ArrayOf(localePath) == [isString |-> FALSE, value |-> <<localePath.value>>]

\* path.join(localePath, FILES.REQUIREJS_CONFIG_MIN) throws a TypeError for an
\* argument that is not a string; fs.existsSync answers for a string.
checkMinifyOn(localePath, minified) ==
    IF ~localePath.isString
    THEN [threw |-> TRUE, value |-> FALSE]
    ELSE [threw |-> FALSE, value |-> minified[localePath.value]]

\* const detectedMinification = checkMinifyOn([localePath]);
\* const isMinifyOn = options.minify || detectedMinification;
DetectedMode(locale) ==
    LET detectedMinification == checkMinifyOn(ArrayOf(LocalePath(locale)), localeMinified)
    IN  IF detectedMinification.threw THEN "undetermined"
        ELSE IF options.minify \/ detectedMinification.value THEN "on" ELSE "off"

\* validateConfig(config) throws unless config is an array.
validateConfig(isArray) == IF isArray THEN "ok" ELSE "throws"

\* results.filter(r => r.status === 'rejected')
failed(positions) == {l \in DOMAIN positions : positions[l] = "rejected"}

\* The end of the default export after Promise.allSettled: process.exit(1) with
\* the count of the rejected locales, or a normal return.
Settled(positions) ==
    IF Cardinality(failed(positions)) > 0
    THEN [status |-> "one", reported |-> <<Cardinality(failed(positions))>>]
    ELSE [status |-> "zero", reported |-> <<>>]

\* The end of the sequential loop: "completed", whatever the locales threw.
Completed == [status |-> "zero", reported |-> <<>>]

(***************************************************************************)
(* The run of the bundler over at most MaxLocales locales.                 *)
(***************************************************************************)
InitRun ==
    /\ ClassifierIdle
    /\ config = <<>>
    /\ disk = {}
    /\ mapFile = "absent"
    /\ options \in {[DefaultOptions EXCEPT !.minify = m] : m \in BOOLEAN}
    /\ isMinifyOn = FALSE
    /\ terser = "ok"
    /\ magepack = <<>>
    /\ runs = <<>>
    /\ MergerIdle
    /\ entry \in Entries
    /\ configIsArray \in BOOLEAN
    /\ \E n \in 0..MaxLocales :
          /\ localeMinified \in [1..n -> BOOLEAN]
          /\ pc = [l \in 1..n |-> "waiting"]
          /\ modes = [l \in 1..n |-> "unset"]
    /\ fsLog = <<>>
    /\ exit = NotExited
    /\ TransformerIdle
    /\ CrawlerIdle

\* The default export up to the start of the pipelines: the configuration is
\* loaded, validated in the "validated" revision, the locales are resolved,
\* and the "allSettled" revision returns when there is none.
Load ==
    /\ exit = NotExited
    /\ \A l \in Locales : pc[l] = "waiting"
    /\ fsLog = <<>>
    /\ IF entry = "validated" /\ validateConfig(configIsArray) = "throws"
       THEN /\ exit' = [status |-> "threw", reported |-> <<>>]
            /\ pc' = pc
       ELSE IF entry = "allSettled" /\ Locales = {}
       THEN /\ exit' = [status |-> "zero", reported |-> <<>>]
            /\ pc' = pc
       ELSE /\ exit' = [status |-> "started", reported |-> <<>>]
            /\ pc' = [l \in Locales |-> "pending"]
    /\ UNCHANGED <<classifierVars, config, compilerVars, mergerVars, transformVars, crawlVars,
                   entry, configIsArray, localeMinified, modes, fsLog>>

\* cleanMagepackDirectory: await fs.rm(targetDir, {recursive: true, force: true})
CleanRm(locale) ==
    /\ entry = "allSettled"
    /\ exit.status = "started"
    /\ pc[locale] = "pending"
    /\ pc' = [pc EXCEPT ![locale] = "removed"]
    /\ fsLog' = Append(fsLog, [locale |-> locale, op |-> "rm magepack"])
    /\ UNCHANGED <<classifierVars, config, compilerVars, mergerVars, transformVars, crawlVars,
                   entry, configIsArray, localeMinified, modes, exit>>

\* cleanMagepackDirectory: await fs.mkdir(targetDir, {recursive: true})
CleanMkdir(locale) ==
    /\ entry = "allSettled"
    /\ exit.status = "started"
    /\ pc[locale] = "removed"
    /\ pc' = [pc EXCEPT ![locale] = "cleaned"]
    /\ fsLog' = Append(fsLog, [locale |-> locale, op |-> "mkdir magepack"])
    /\ UNCHANGED <<classifierVars, config, compilerVars, mergerVars, transformVars, crawlVars,
                   entry, configIsArray, localeMinified, modes, exit>>

\* processLocale after the cleaning: the detection of the mode; what it throws
\* is logged and rethrown, so that the promise of the locale is rejected.
DetectMinification(locale) ==
    /\ entry = "allSettled"
    /\ exit.status = "started"
    /\ pc[locale] = "cleaned"
    /\ modes' = [modes EXCEPT ![locale] = DetectedMode(locale)]
    /\ pc' = [pc EXCEPT ![locale] =
                 IF DetectedMode(locale) = "undetermined" THEN "rejected" ELSE "detected"]
    /\ UNCHANGED <<classifierVars, config, compilerVars, mergerVars, transformVars, crawlVars,
                   entry, configIsArray, localeMinified, fsLog, exit>>

\* The body of the sequential loop for one locale, after the locales before
\* it: the detection of the mode inside try, what it throws is logged.
BundleLocale(locale) ==
    /\ entry \in {"sequential", "validated"}
    /\ exit.status = "started"
    /\ pc[locale] = "pending"
    /\ \A before \in Locales : before < locale => pc[before] # "pending"
    /\ modes' = [modes EXCEPT ![locale] = DetectedMode(locale)]
    /\ pc' = [pc EXCEPT ![locale] =
                 IF DetectedMode(locale) = "undetermined" THEN "caught" ELSE "detected"]
    /\ UNCHANGED <<classifierVars, config, compilerVars, mergerVars, transformVars, crawlVars,
                   entry, configIsArray, localeMinified, fsLog, exit>>

\* The end of the default export, once every pipeline is settled.
Finish ==
    /\ exit.status = "started"
    /\ \A l \in Locales : pc[l] \in {"rejected", "caught"}
    /\ exit' = IF entry = "allSettled" THEN Settled(pc) ELSE Completed
    /\ UNCHANGED <<classifierVars, config, compilerVars, mergerVars, transformVars, crawlVars,
                   entry, configIsArray, localeMinified, pc, modes, fsLog>>

NextRun ==
    \/ Load
    \/ \E locale \in Locales : CleanRm(locale)
    \/ \E locale \in Locales : CleanMkdir(locale)
    \/ \E locale \in Locales : DetectMinification(locale)
    \/ \E locale \in Locales : BundleLocale(locale)
    \/ Finish

SpecRun == InitRun /\ [][NextRun]_vars

(***************************************************************************)
(* lib/bundle/moduleWrapper.js: the module transformer.  The contents of a *)
(* script are parsed in the subset of JavaScript                           *)
(*     Program   ::= Statement*                                            *)
(*     Statement ::= Callee "(" [Arguments] ");"                           *)
(*     Callee    ::= "define" | "require"                                  *)
(*     Arguments ::= "'m', function(){" Statement* "}"                     *)
(*                 | "['a'], function(a){" Statement* "}"                  *)
(*                 | "function(){" Statement* "}"                          *)
(* into the call expressions acorn builds for it: the name of the callee,  *)
(* the offset `start` of the call and its arguments, each with its type,   *)
(* its own `start` and, for a function, the statements of its body.        *)
(* Offsets count characters from 0, as acorn does.                         *)
(***************************************************************************)
Callees == {"define", "require"}

ArgumentForms ==
    { [open |-> "'m', function(){",
       types |-> <<"Literal", "FunctionExpression">>, starts |-> <<0, 5>>],
      [open |-> "['a'], function(a){",
       types |-> <<"ArrayExpression", "FunctionExpression">>, starts |-> <<0, 7>>],
      [open |-> "function(){",
       types |-> <<"FunctionExpression">>, starts |-> <<0>>] }

\* s.slice(n)
Slice(s, n) == SubSeq(s, n + 1, Len(s))

ParseFailed == [ok |-> FALSE, nodes |-> <<>>, rest |-> "", offset |-> 0]

\* The statements at the head of `text`, which starts at `offset` of the
\* contents, up to the end of the text or a closing brace.
RECURSIVE ParseStatements(_, _)
ParseStatements(text, offset) ==
    IF text = "" \/ StartsWith(text, "}")
    THEN [ok |-> TRUE, nodes |-> <<>>, rest |-> text, offset |-> offset]
    ELSE
    LET callees == {c \in Callees : StartsWith(text, c \o "(")} IN
    IF callees = {} THEN ParseFailed
    ELSE
    LET callee == CHOOSE c \in callees : TRUE
        argsAt == offset + Len(callee) + 1
        afterParen == Slice(text, Len(callee) + 1)
        forms == {f \in ArgumentForms : StartsWith(afterParen, f.open)}
        form == CHOOSE f \in forms : TRUE
        body == ParseStatements(Slice(afterParen, Len(form.open)), argsAt + Len(form.open))
        statement ==
            IF StartsWith(afterParen, ");")
            THEN [ok |-> TRUE,
                  node |-> [callee |-> callee, start |-> offset, arguments |-> <<>>],
                  rest |-> Slice(afterParen, 2),
                  offset |-> argsAt + 2]
            ELSE IF forms = {} THEN [ok |-> FALSE]
            ELSE IF ~body.ok \/ ~StartsWith(body.rest, "});") THEN [ok |-> FALSE]
            ELSE [ok |-> TRUE,
                  node |-> [callee |-> callee, start |-> offset,
                            arguments |->
                                [k \in 1..Len(form.types) |->
                                    [type |-> form.types[k],
                                     isString |-> form.types[k] = "Literal",
                                     start |-> argsAt + form.starts[k],
                                     body |-> IF form.types[k] = "FunctionExpression"
                                              THEN body.nodes ELSE <<>>]]],
                  rest |-> Slice(body.rest, 3),
                  offset |-> body.offset + 3]
        next == ParseStatements(statement.rest, statement.offset)
    IN  IF ~statement.ok THEN ParseFailed
        ELSE IF ~next.ok THEN ParseFailed
        ELSE [ok |-> TRUE, nodes |-> <<statement.node>> \o next.nodes,
              rest |-> next.rest, offset |-> next.offset]

\* acorn.parse inside try/catch: null when the contents do not parse.
parseAst(content) ==
    LET parsed == ParseStatements(content, 0)
    IN  IF parsed.ok /\ parsed.rest = ""
        THEN [isNull |-> FALSE, body |-> parsed.nodes]
        ELSE [isNull |-> TRUE, body |-> <<>>]

\* walk.simple(ast, {CallExpression(node) {...}}): the call expressions in the
\* order the visitor is called for them.  walk.simple walks the children of a
\* node (the arguments of a call, the body of a function) before it calls the
\* visitor for the node.
RECURSIVE CallExpressions(_)
CallExpressions(nodes) ==
    IF nodes = <<>> THEN <<>>
    ELSE LET node == Head(nodes)
         IN  Flatten([k \in 1..Len(node.arguments) |->
                          CallExpressions(node.arguments[k].body)])
                 \o <<node>> \o CallExpressions(Tail(nodes))

\* node.callee.type === 'Identifier' && node.callee.name === 'define'
IsDefineCall(node) == node.callee = "define"

\* args.length > 0 && (args[0].type !== 'Literal' || typeof args[0].value !== 'string')
IsAnonymousCall(node) ==
    /\ IsDefineCall(node)
    /\ Len(node.arguments) > 0
    /\ (node.arguments[1].type # "Literal" \/ ~node.arguments[1].isString)

isNonAmd_ParseFailureIsAmd(moduleContents) ==
    LET ast == parseAst(moduleContents)
    IN  IF ast.isNull THEN FALSE
        ELSE ~\E k \in 1..Len(CallExpressions(ast.body)) :
                 IsDefineCall(CallExpressions(ast.body)[k])

isNonAmd(moduleContents) ==
    LET ast == parseAst(moduleContents)
    IN  IF ast.isNull THEN TRUE
        ELSE ~\E k \in 1..Len(CallExpressions(ast.body)) :
                 IsDefineCall(CallExpressions(ast.body)[k])

wrapNonAmd(moduleName, content) ==
    "define('" \o moduleName \o "', (require.s.contexts._.config.shim['" \o moduleName
        \o "'] && require.s.contexts._.config.shim['" \o moduleName
        \o "'].deps || []), function() {\n\n    " \o content
        \o "\n\n    return (require.s.contexts._.config.shim['" \o moduleName
        \o "'] && require.s.contexts._.config.shim['" \o moduleName
        \o "'].exportsFn && require.s.contexts._.config.shim['" \o moduleName
        \o "'].exportsFn());\n}.bind(window));"

isText(modulePath) == ~EndsWith(modulePath, ".js")

\* jsesc(content) with its default options: quotes and backslashes are
\* escaped for a single-quoted literal, line breaks are written as \n.
RECURSIVE jsesc(_)
jsesc(content) ==
    IF content = "" THEN ""
    ELSE LET c == CharAt(content, 1)
         IN  (IF c = "'" THEN "\\'"
              ELSE IF c = "\\" THEN "\\\\"
              ELSE IF c = "\n" THEN "\\n"
              ELSE c) \o jsesc(Slice(content, 1))

wrapText(moduleName, content) ==
    "define('" \o moduleName \o "', function() {\n    return '" \o jsesc(content) \o "';\n});"

isAnonymousAmd(moduleContents) ==
    LET ast == parseAst(moduleContents)
    IN  IF ast.isNull THEN FALSE
        ELSE \E k \in 1..Len(CallExpressions(ast.body)) :
                 IsAnonymousCall(CallExpressions(ast.body)[k])

\* magicString.appendLeft(index, content) followed by toString()
AppendLeft(original, index, content) ==
    SubSeq(original, 1, index) \o content \o Slice(original, index)

wrapAnonymousAmd_AtCall(moduleName, moduleContents) ==
    LET ast == parseAst(moduleContents)
        visited == CallExpressions(ast.body)
        found == {k \in 1..Len(visited) : IsAnonymousCall(visited[k])}
        first == visited[CHOOSE k \in found : \A j \in found : k <= j]
    IN  IF ast.isNull \/ found = {} THEN moduleContents
        ELSE AppendLeft(moduleContents, first.start, "'" \o moduleName \o "', ")

\* The visitor patches the first call it is called for that is anonymous and
\* ignores the calls after it (modified).
wrapAnonymousAmd(moduleName, moduleContents) ==
    LET ast == parseAst(moduleContents)
        visited == CallExpressions(ast.body)
        found == {k \in 1..Len(visited) : IsAnonymousCall(visited[k])}
        first == visited[CHOOSE k \in found : \A j \in found : k <= j]
    IN  IF ast.isNull \/ found = {} THEN moduleContents
        ELSE AppendLeft(moduleContents, first.arguments[1].start, "'" \o moduleName \o "', ")

\* transform(logicalId, sourceText, sourcePath): the classification of a module
\* and the rewriting that belongs to its class.
transform(logicalId, sourceText, sourcePath) ==
    IF isText(sourcePath) THEN wrapText(logicalId, sourceText)
    ELSE IF isNonAmd(sourceText) THEN wrapNonAmd(logicalId, sourceText)
    ELSE IF isAnonymousAmd(sourceText) THEN wrapAnonymousAmd(logicalId, sourceText)
    ELSE sourceText

(***************************************************************************)
(* The transformer on the scripts of the subset, on scripts that do not    *)
(* parse, and on text modules.  A script is written from a list of         *)
(* statements {callee, form, body}: form 0 is a call without arguments,    *)
(* 1 a call with a name, 2 with dependencies, 3 with a factory only.       *)
(***************************************************************************)
FormOpen(form) ==
    IF form = 1 THEN "'m', function(){"
    ELSE IF form = 2 THEN "['a'], function(a){"
    ELSE "function(){"

RECURSIVE Write(_)
Write(statements) ==
    IF statements = <<>> THEN ""
    ELSE LET st == Head(statements)
         IN  st.callee \o "("
                 \o (IF st.form = 0 THEN "" ELSE FormOpen(st.form) \o Write(st.body) \o "}")
                 \o ");" \o Write(Tail(statements))

SeqsUpTo(set, n) == UNION {[1..k -> set] : k \in 0..n}

\* The definition calls inside a factory.
NestedStatements == [callee : {"define"}, form : {1, 2}, body : {<<>>}]

TopStatements ==
    [callee : Callees, form : {0}, body : {<<>>}]
        \cup [callee : {"define"}, form : {1, 2}, body : SeqsUpTo(NestedStatements, MaxNested)]
        \cup [callee : {"define"}, form : {3}, body : {<<>>}]
        \cup [callee : {"require"}, form : {3}, body : SeqsUpTo(NestedStatements, MaxNested)]

Programs == SeqsUpTo(TopStatements, MaxStatements)

\* A closing brace without its opening one is a syntax error.
Unparseable == {Write(program) \o "}" : program \in Programs}

Scripts == {Write(program) : program \in Programs} \cup Unparseable

TextContents == {"<div class='a'>\n</div>", "a\\b"}

ModuleNames == {"My/Module"}

Modules ==
    [moduleName : ModuleNames, content : Scripts, modulePath : {"My/Module.js"}]
        \cup [moduleName : ModuleNames, content : TextContents \cup {"define();"},
              modulePath : {"My/template.html"}]

InitTransform ==
    /\ ClassifierIdle
    /\ config = <<>>
    /\ CompilerIdle
    /\ MergerIdle
    /\ entry = "allSettled"
    /\ configIsArray = TRUE
    /\ localeMinified = <<>>
    /\ pc = <<>>
    /\ modes = <<>>
    /\ fsLog = <<>>
    /\ exit = NotExited
    /\ transformIn \in Modules
    /\ transformOut = NotWrapped
    /\ CrawlerIdle

\* sources[moduleName] = moduleWrapper(moduleName, content, absPath)
Transform ==
    /\ ~transformOut.done
    /\ transformOut' = [done |-> TRUE,
                        text |-> transform(transformIn.moduleName, transformIn.content,
                                           transformIn.modulePath)]
    /\ UNCHANGED <<classifierVars, config, compilerVars, mergerVars, runVars, transformIn, crawlVars>>

NextTransform == Transform

SpecTransform == InitTransform /\ [][NextTransform]_vars

(***************************************************************************)
(* lib/generate/waitForNetworkStability.js.  Time is the value of `clock`; *)
(* a timer holds the moment it is due and its callback runs at some moment *)
(* not before that.  A request is {url, resourceType, requestId}, with     *)
(* requestId "" where the page's requests carry no _requestId.             *)
(***************************************************************************)
excludeUrlPatterns ==
    {"google-analytics.com", "googletagmanager.com", "doubleclick.net",
     "facebook.com/tr", "hotjar.com", "datadog", "newrelic", "sentry"}

shouldCount(req, include) ==
    IF \E re \in excludeUrlPatterns : Includes(ToLowerCase(req.url), re) THEN FALSE
    ELSE IF include # {} THEN req.resourceType \in include
    ELSE TRUE

\* req._requestId || req.url()
InflightKey_Unique(req, r) == <<r, req.url>>

InflightKey(req, r) == IF req.requestId # "" THEN req.requestId ELSE req.url

\* armIdleTimer: the timer it leaves armed, after clearing the one before.
armIdleTimer(keys, lastStartedAt, now) ==
    IF keys # {} THEN NoTimer
    ELSE LET elapsedSinceLastStart == now - lastStartedAt
             remaining == IF idleMs - elapsedSinceLastStart > 0
                          THEN idleMs - elapsedSinceLastStart ELSE 0
         IN  now + remaining

\* The counted requests that have started and have neither finished nor failed.
CountedInFlight == {r \in DOMAIN requests : network[r].state = "inflight" /\ network[r].counts}

\* resolveDone() or rejectDone(...): only the first call settles donePromise.
Settle(state) ==
    IF done.state = "pending"
    THEN [state |-> state, at |-> clock, pending |-> CountedInFlight,
          quiet |-> clock - latestStart, calls |-> done.calls + 1]
    ELSE [done EXCEPT !.calls = @ + 1]

\* page.on('request', onRequest)
onRequest(r) ==
    IF listening /\ shouldCount(requests[r], includeResourceTypes)
    THEN /\ lastRequestStartedAt' = clock
         /\ inflight' = inflight \cup {InflightKey(requests[r], r)}
         /\ idleTimer' = armIdleTimer(inflight \cup {InflightKey(requests[r], r)}, clock, clock)
    ELSE UNCHANGED <<lastRequestStartedAt, inflight, idleTimer>>

\* page.on('requestfinished', onRequestDone)
onRequestDone(r) ==
    IF listening /\ shouldCount(requests[r], includeResourceTypes)
    THEN /\ inflight' = inflight \ {InflightKey(requests[r], r)}
         /\ idleTimer' = armIdleTimer(inflight \ {InflightKey(requests[r], r)},
                                      lastRequestStartedAt, clock)
         /\ UNCHANGED lastRequestStartedAt
    ELSE UNCHANGED <<lastRequestStartedAt, inflight, idleTimer>>

\* page.on('requestfailed', onRequestFailed)
onRequestFailed(r) ==
    IF listening /\ shouldCount(requests[r], includeResourceTypes)
    THEN /\ inflight' = inflight \ {InflightKey(requests[r], r)}
         /\ idleTimer' = armIdleTimer(inflight \ {InflightKey(requests[r], r)},
                                      lastRequestStartedAt, clock)
         /\ UNCHANGED lastRequestStartedAt
    ELSE UNCHANGED <<lastRequestStartedAt, inflight, idleTimer>>

\* cleanup: the idle timer is cleared and the three listeners are detached.
cleanup_KeepListeners == [idleTimer |-> NoTimer, listening |-> listening]

cleanup == [idleTimer |-> NoTimer, listening |-> FALSE]

(***************************************************************************)
(* One call of waitForNetworkStability on a page that issues at most       *)
(* MaxRequests requests.                                                   *)
(***************************************************************************)
RequestIds == <<"r1", "r2", "r3">>

RequestKinds ==
    { [url |-> "/static/a.js", resourceType |-> "script"],
      [url |-> "/static/b.css", resourceType |-> "stylesheet"],
      [url |-> "https://www.Google-Analytics.com/collect", resourceType |-> "xhr"] }

\* The function body up to `await donePromise`: the listeners are attached,
\* the idle timer and the hard timeout are armed.
InitWait ==
    /\ ClassifierIdle
    /\ config = <<>>
    /\ CompilerIdle
    /\ MergerIdle
    /\ entry = "allSettled"
    /\ configIsArray = TRUE
    /\ localeMinified = <<>>
    /\ pc = <<>>
    /\ modes = <<>>
    /\ fsLog = <<>>
    /\ exit = NotExited
    /\ TransformerIdle
    /\ clock = 0
    /\ includeResourceTypes \in {{}, {"script"}}
    /\ \E kinds \in [1..MaxRequests -> RequestKinds], withId \in BOOLEAN :
          requests = [r \in 1..MaxRequests |->
                         [url |-> kinds[r].url, resourceType |-> kinds[r].resourceType,
                          requestId |-> IF withId THEN RequestIds[r] ELSE ""]]
    /\ network = [r \in 1..MaxRequests |-> [state |-> "new", counts |-> FALSE]]
    /\ latestStart = 0
    /\ inflight = {}
    /\ lastRequestStartedAt = 0
    /\ idleTimer = armIdleTimer({}, 0, 0)
    /\ timeout = timeoutMs
    /\ listening = TRUE
    /\ done = NotSettled
    /\ interception = <<>>

otherVars == <<classifierVars, config, compilerVars, mergerVars, runVars, transformVars>>

Tick ==
    /\ clock < MaxClock
    /\ clock' = clock + 1
    /\ UNCHANGED <<otherVars, requests, network, latestStart, waitVars, interception>>

\* The page starts a request and emits 'request'.
EmitRequest(r) ==
    /\ network[r].state = "new"
    /\ network' = [network EXCEPT ![r] =
                      [state |-> "inflight",
                       counts |-> shouldCount(requests[r], includeResourceTypes)]]
    /\ latestStart' = IF shouldCount(requests[r], includeResourceTypes)
                      THEN clock ELSE latestStart
    /\ onRequest(r)
    /\ UNCHANGED <<otherVars, clock, requests, includeResourceTypes, timeout, listening,
                   done, interception>>

\* A request ends and the page emits 'requestfinished'.
EmitRequestFinished(r) ==
    /\ network[r].state = "inflight"
    /\ network' = [network EXCEPT ![r].state = "finished"]
    /\ UNCHANGED latestStart
    /\ onRequestDone(r)
    /\ UNCHANGED <<otherVars, clock, requests, includeResourceTypes, timeout, listening,
                   done, interception>>

\* A request fails and the page emits 'requestfailed'.
EmitRequestFailed(r) ==
    /\ network[r].state = "inflight"
    /\ network' = [network EXCEPT ![r].state = "failed"]
    /\ UNCHANGED latestStart
    /\ onRequestFailed(r)
    /\ UNCHANGED <<otherVars, clock, requests, includeResourceTypes, timeout, listening,
                   done, interception>>

\* The callback of the idle timer: resolveDone() when nothing is counted in
\* flight, and then the finally block: clearTimeout(timeout), cleanup().
IdleTimerFires ==
    /\ idleTimer # NoTimer
    /\ clock >= idleTimer
    /\ IF inflight = {}
       THEN /\ done' = Settle("resolved")
            /\ timeout' = NoTimer
            /\ idleTimer' = cleanup.idleTimer
            /\ listening' = cleanup.listening
       ELSE /\ idleTimer' = NoTimer
            /\ UNCHANGED <<done, timeout, listening>>
    /\ UNCHANGED <<otherVars, clock, requests, network, latestStart, includeResourceTypes, inflight,
                   lastRequestStartedAt, interception>>

\* The callback of the hard timeout: cleanup(), rejectDone(...), and then the
\* finally block.
TimeoutFires ==
    /\ timeout # NoTimer
    /\ clock >= timeout
    /\ done' = Settle("rejected")
    /\ timeout' = NoTimer
    /\ idleTimer' = cleanup.idleTimer
    /\ listening' = cleanup.listening
    /\ UNCHANGED <<otherVars, clock, requests, network, latestStart, includeResourceTypes, inflight,
                   lastRequestStartedAt, interception>>

NextWait ==
    \/ Tick
    \/ \E r \in DOMAIN requests : EmitRequest(r)
    \/ \E r \in DOMAIN requests : EmitRequestFinished(r)
    \/ \E r \in DOMAIN requests : EmitRequestFailed(r)
    \/ IdleTimerFires
    \/ TimeoutFires

SpecWait == InitWait /\ [][NextWait]_vars

\* Time passes and a timer that is due runs its callback.
SpecWaitFair ==
    SpecWait /\ WF_vars(Tick) /\ WF_vars(IdleTimerFires) /\ WF_vars(TimeoutFires)

(***************************************************************************)
(* Properties of the classifier.  `discovery` keeps the discovery map as   *)
(* it was handed over; `config` is the returned list [vendor, common,      *)
(* ...page bundles], empty until the classifier has returned.              *)
(***************************************************************************)
Classified == config # <<>>

\* Every logicalId of the discovery map.
InputIds == Range(discoveryOrder(discovery))

\* The bundles of the returned list that hold a logicalId.
Holders(id) == {i \in 1..Len(config) : HasKey(config[i].modules, id)}

InVendor(id) == HasKey(config[1].modules, id)
InCommon(id) == HasKey(config[2].modules, id)
InPage(id) == \E i \in 3..Len(config) : HasKey(config[i].modules, id)
Promoted(id) == InVendor(id) \/ InCommon(id)

IsCritical(id) == isCriticalInfrastructure(cleanModuleName(id))
IsTemplate(id) == IsTemplateOrJson(cleanModuleName(id))
UsageCount(id) == Cardinality({i \in 1..Len(discovery) : HasKey(discovery[i].modules, id)})

\* C1 (as stated): once the classifier has returned, every logicalId of the
\* discovery map is in the modules map of exactly one bundle of the returned
\* list.  Refuted: a module two page bundles use stays in both.
C1_Exclusivity ==
    Classified => \A id \in InputIds : Cardinality(Holders(id)) = 1

ScenarioA(id) ==
    /\ Len(discovery) >= 3
    /\ \A i \in 1..Len(discovery) : Keys(discovery[i].modules) = <<id>>
    /\ ~IsCritical(id)
    /\ id \notin alwaysCommon

\* C6: a module is promoted to vendor or common whenever its usage count
\* reaches the sharing threshold, or it is always-common, or it is critical;
\* every promoted module is in no page bundle; and page bundles that all hold
\* only the module a end with empty modules maps.
C6_PromotionRule ==
    Classified =>
        /\ \A id \in InputIds :
              (\/ UsageCount(id) >= MIN_USAGE_THRESHOLD
               \/ id \in alwaysCommon
               \/ IsCritical(id)) => Promoted(id)
        /\ \A id \in InputIds : Promoted(id) => ~InPage(id)
        /\ \A id \in InputIds :
              ScenarioA(id) => \A i \in 3..Len(config) : config[i].modules = <<>>

\* Scenario A has been classified: every page bundle is empty, a is shared.
C6_Witness ==
    /\ Classified
    /\ \E id \in InputIds :
          /\ ScenarioA(id)
          /\ Promoted(id)
          /\ \A i \in 3..Len(config) : config[i].modules = <<>>

\* The shared bundle the rule order gives a normalized name: 1 vendor, 2 common.
BucketByRuleOrder(name) ==
    IF IsTemplateOrJson(name) THEN 2
    ELSE IF isCriticalInfrastructure(name) THEN 1
    ELSE IF MAGENTO_MODULE_REGEX(name) THEN 2
    ELSE 1

Restrict(seq, set) == SelectSeq(seq, LAMBDA m : m \in set)

\* C3 (as stated): the members of every compiled bundle are concatenated in
\* first-seen discovery order restricted to the members concatenated.
\* Refuted: a page bundle keeps its own order for the modules it shares with
\* an earlier page bundle.
C3_OrderPreservation ==
    \A i \in DOMAIN runs :
        runs[i].sourceIds =
            Restrict(discoveryOrder(discovery), Range(runs[i].sourceIds))

\* The members of config[i] whose name matches a sensitive pattern.
SensitiveMembers(i) ==
    {k \in 1..Len(config[i].modules) : IsSensitive(config[i].modules[k].id)}

\* C5: a compiled bundle with a sensitive member is never handed to the
\* minifier with the aggressive strategy and never holds aggressive output,
\* whatever the options; when the minifier is called its strategy is safe.
C5_SensitiveOverride ==
    \A i \in DOMAIN runs :
        SensitiveMembers(i) # {} =>
            /\ runs[i].terserOptions.strategy # "aggressive"
            /\ runs[i].terserCalled => runs[i].terserOptions.strategy = "safe"
            /\ runs[i].status = "written" =>
                  ~StartsWith(magepack[runs[i].filename], "aggressive{")

\* A bundle with a sensitive member was minified although the aggressive
\* strategy was requested.
C5_Witness ==
    \E i \in DOMAIN runs :
        /\ SensitiveMembers(i) # {}
        /\ options.minifyStrategy = "aggressive"
        /\ runs[i].terserCalled
        /\ ~runs[i].terserThrew
        /\ runs[i].status = "written"

\* The attempts of run i that resolved, and the files a bundle may own.
Resolved(i) == {k \in 1..Len(runs[i].attempts) : runs[i].attempts[k].res.ok}

Artifacts(filename) ==
    {filename, filename \o ".gz", filename \o ".br", filename \o ".map"}

\* C8: whatever members fail to resolve, the call of a bundle is not rejected
\* (the map file being readable) and every member is attempted; a bundle of
\* which no member resolved is skipped and none of its files exists; a bundle
\* of which some member resolved is written from the resolved members, in
\* order, the others being left out; and no file written is empty.
C8_SkipUnresolvable ==
    /\ \A i \in DOMAIN runs :
          mapFile # "malformed" =>
              /\ runs[i].status \in {"skipped", "written"}
              /\ Len(runs[i].attempts) = Len(config[i].modules)
              /\ Resolved(i) = {} =>
                    /\ runs[i].status = "skipped"
                    /\ Artifacts(runs[i].filename) \cap DOMAIN magepack = {}
              /\ Resolved(i) # {} =>
                    /\ runs[i].status = "written"
                    /\ runs[i].filename \in DOMAIN magepack
                    /\ runs[i].sourceIds =
                          Restrict(Keys(config[i].modules),
                                   {runs[i].attempts[k].id : k \in Resolved(i)})
    /\ \A f \in DOMAIN magepack : magepack[f] # ""

\* One bundle was skipped because none of its members resolved, and another
\* bundle of the same locale was written without one of its members.
C8_Witness ==
    \E i, j \in DOMAIN runs :
        /\ Len(runs[i].attempts) > 0 /\ Resolved(i) = {} /\ runs[i].status = "skipped"
        /\ Resolved(j) # {} /\ Resolved(j) # 1..Len(runs[j].attempts)
        /\ runs[j].status = "written"

\* The attempts of run i that took the JS path of resolveFile.
IsStaticAttempt(a) ==
    \/ StartsWith(a.id, "text!")
    \/ StartsWith(a.id, "domReady!")
    \/ HasStaticExtension(a.mappedPath)

JsAttempts(i) ==
    {k \in 1..Len(runs[i].attempts) : ~IsStaticAttempt(runs[i].attempts[k])}

BaseOf(path) == IF EndsWith(path, ".js") THEN SubSeq(path, 1, Len(path) - 3) ELSE path
MinifiedOf(a) == BaseOf(a.mappedPath) \o ".min.js"
StandardOf(a) == BaseOf(a.mappedPath) \o ".js"
PrimaryOf(a) == IF isMinifyOn THEN MinifiedOf(a) ELSE StandardOf(a)
FallbackOf(a) == IF isMinifyOn THEN StandardOf(a) ELSE MinifiedOf(a)

\* The selection part of C9: the primary variant is returned whenever it
\* exists, the fallback exactly when the primary is missing and the fallback
\* exists, and the resolution fails when neither exists.
LocatesInModeOrder(a) ==
    /\ PrimaryOf(a) \in disk => a.res.ok /\ a.res.path = PrimaryOf(a)
    /\ (PrimaryOf(a) \notin disk /\ FallbackOf(a) \in disk) =>
          a.res.ok /\ a.res.path = FallbackOf(a)
    /\ (PrimaryOf(a) \notin disk /\ FallbackOf(a) \notin disk) => ~a.res.ok
    /\ (a.res.ok /\ a.res.path = FallbackOf(a)) =>
          PrimaryOf(a) \notin disk /\ FallbackOf(a) \in disk

\* C9 (as stated): a JS module is located in mode order, and a failure names
\* both attempted paths.  Refuted: the error names the fallback path only.
C9_LocateNamesBoth ==
    \A i \in DOMAIN runs :
        \A k \in JsAttempts(i) :
            LET a == runs[i].attempts[k]
            IN  /\ LocatesInModeOrder(a)
                /\ ~a.res.ok => a.res.named = {PrimaryOf(a), FallbackOf(a)}

\* C9 (amended): a JS module is located in mode order (minified first when
\* minification is on, unminified first otherwise); when neither variant
\* exists both were tried, in that order, and the error names the fallback
\* path only.
C9_Locate ==
    \A i \in DOMAIN runs :
        \A k \in JsAttempts(i) :
            LET a == runs[i].attempts[k]
            IN  /\ LocatesInModeOrder(a)
                /\ ~a.res.ok =>
                      /\ a.res.tried = <<PrimaryOf(a), FallbackOf(a)>>
                      /\ a.res.named = {FallbackOf(a)}

\* Of the JS members attempted, one was found at its fallback path and one at
\* neither path.
C9_Witness ==
    /\ \E i \in DOMAIN runs : \E k \in JsAttempts(i) :
          runs[i].attempts[k].res.ok
          /\ runs[i].attempts[k].res.path = FallbackOf(runs[i].attempts[k])
    /\ \E i \in DOMAIN runs : \E k \in JsAttempts(i) : ~runs[i].attempts[k].res.ok

\* The transformed members of run i that resolved, in bundle order.
ResolvedSources(i) ==
    LET ok == SelectSeq(runs[i].attempts, LAMBDA a : a.res.ok)
    IN  [k \in 1..Len(ok) |-> ok[k].source]

\* C10: when the minifier throws on a bundle with a resolved member, the
\* bundle is written, with its compressed siblings, and its content is the
\* transformed resolved members joined by newlines in bundle order.
C10_MinifyFailureNotFatal ==
    \A i \in DOMAIN runs :
        (runs[i].terserThrew /\ Resolved(i) # {}) =>
            /\ runs[i].status = "written"
            /\ {runs[i].filename, runs[i].filename \o ".gz", runs[i].filename \o ".br"}
                  \subseteq DOMAIN magepack
            /\ magepack[runs[i].filename] = Join(ResolvedSources(i), "\n")

\* The minifier threw on a bundle of which two members resolved.
C10_Witness ==
    \E i \in DOMAIN runs :
        /\ runs[i].terserThrew
        /\ Cardinality(Resolved(i)) >= 2
        /\ runs[i].status = "written"

(***************************************************************************)
(* Properties of the merger.  mergeLog records every merge performed: the  *)
(* file, the fragment, and the content of the file before and after.       *)
(***************************************************************************)
\* The number of non-overlapping occurrences of p in s.
RECURSIVE CountOccurrences(_, _)
CountOccurrences(s, p) ==
    LET i == IndexOf(s, p)
    IN  IF i = 0 THEN 0
        ELSE 1 + CountOccurrences(SubSeq(s, i + Len(p), Len(s)), p)

\* The bytes from the first START sentinel through the first END sentinel
\* after it; "" when there is no such region.
MarkerRegion(s) ==
    LET i == IndexOf(s, startMarker)
        j == IF i = 0 THEN 0 ELSE IndexOfFrom(s, endMarker, i + Len(startMarker))
    IN  IF i = 0 \/ j = 0 THEN "" ELSE SubSeq(s, i, j + Len(endMarker) - 1)

\* Merges k < l are successive merges into the same file.
SuccessiveMerges(k, l) ==
    /\ k < l
    /\ mergeLog[k].file = mergeLog[l].file
    /\ \A m \in (k + 1)..(l - 1) : mergeLog[m].file # mergeLog[k].file

\* C2: two successive merges of the same fragment into the same file leave
\* the same marker region, START through END, byte for byte; and after every
\* merge, also into a file that held the marker region of an earlier run, the
\* file holds exactly one START sentinel and exactly one END sentinel.
C2_IdempotentMerge ==
    /\ \A k \in 1..Len(mergeLog) :
          /\ CountOccurrences(mergeLog[k].after, startMarker) = 1
          /\ CountOccurrences(mergeLog[k].after, endMarker) = 1
          /\ configFiles[mergeLog[Len(mergeLog)].file] = mergeLog[Len(mergeLog)].after
    /\ \A k, l \in 1..Len(mergeLog) :
          (SuccessiveMerges(k, l) /\ mergeLog[k].fragment = mergeLog[l].fragment) =>
              /\ MarkerRegion(mergeLog[k].after) # ""
              /\ MarkerRegion(mergeLog[k].after) = MarkerRegion(mergeLog[l].after)

\* The same fragment was merged twice in succession into a file that held the
\* marker region of an earlier run.
C2_Witness ==
    \E k, l \in 1..Len(mergeLog) :
        /\ SuccessiveMerges(k, l)
        /\ mergeLog[k].fragment = mergeLog[l].fragment
        /\ Includes(mergeLog[k].before, startMarker)
        /\ Includes(mergeLog[k].before, endMarker)

(***************************************************************************)
(* Properties of the fragment synthesis.  fragmentLog records every        *)
(* fragment synthesized from config under the mode isMinifyOn.             *)
(***************************************************************************)
\* C11 (as stated): the paths map of every synthesized fragment holds an entry
\* for a bundle ID only when the ID differs from the physical path of the
\* bundle file; no key of the map is mapped to itself.  Refuted by the
\* revision that forces the mapping.
C11_PathsOnlyWhenDiverging ==
    \A f \in 1..Len(fragmentLog) :
        /\ EndsWith(fragmentLog[f].text,
                    "paths: " \o JsonObject(fragmentLog[f].paths) \o "\n});")
        /\ \A k \in 1..Len(fragmentLog[f].paths) :
              fragmentLog[f].paths[k].value # JsonString(fragmentLog[f].paths[k].key)

(***************************************************************************)
(* Properties of the calls of the merger.  injections records each call:   *)
(* its targets, its fragment and the configuration files before and after. *)
(***************************************************************************)
\* The marker region a merge of the fragment leaves in a file.
RegionOf(fragment) == startMarker \o "\n" \o fragment \o "\n" \o endMarker

\* C12 (as stated): after every call of the merger, each loader-configuration
\* file that existed, requirejs-config.js and requirejs-config.min.js alike,
\* holds the marker region of the fragment of that call, whatever the mode.
\* Refuted by the revision that targets the file of the mode only.
C12_EveryVariantMerged ==
    \A k \in 1..Len(injections) :
        \A f \in DOMAIN injections[k].before :
            MarkerRegion(injections[k].after[f]) = RegionOf(injections[k].fragment)

\* C13: a call of the merger creates no file and removes none; a file that is
\* no target of the call, or that does not exist, is left as it was; and a
\* target that exists receives the fragment although another target is absent.
C13_MissingFileSkipped ==
    \A k \in 1..Len(injections) :
        LET call == injections[k]
        IN  /\ DOMAIN call.after = DOMAIN call.before
            /\ \A f \in DOMAIN call.before :
                  IF f \in Range(call.targets)
                  THEN MarkerRegion(call.after[f]) = RegionOf(call.fragment)
                  ELSE call.after[f] = call.before[f]
            /\ Range(call.targets) \cap DOMAIN call.before = {} =>
                  call.after = call.before

\* A call whose only target was absent left the other file as it was, and a
\* call on both targets merged into the one that existed.
C13_Witness ==
    /\ \E k \in 1..Len(injections) :
          /\ Len(injections[k].targets) = 1
          /\ Range(injections[k].targets) \cap DOMAIN injections[k].before = {}
          /\ DOMAIN injections[k].before # {}
    /\ \E k \in 1..Len(injections) :
          /\ Len(injections[k].targets) = 2
          /\ Cardinality(DOMAIN injections[k].before) = 1
          /\ injections[k].after # injections[k].before

(***************************************************************************)
(* Properties of the run.  pc[l] is how far the pipeline of locale l is,   *)
(* modes[l] the mode it computed, fsLog the mutations of the filesystem in *)
(* the order they happened, exit the end of the run.                       *)
(***************************************************************************)
Ended == exit.status \in {"zero", "one", "threw"}

\* The locales whose pipeline threw.
Thrown == {l \in Locales : pc[l] \in {"rejected", "caught"}}

\* The pipeline of the locale is past the detection of its mode.
PastDetection(l) == pc[l] \in {"detected", "rejected", "caught"}

\* C20: once the pipeline of a locale is past the detection, the mode of the
\* locale is on exactly when minification is forced by the option or the
\* locale's own requirejs-config.min.js exists; the files of no other locale
\* enter it.
C20_ModeDetected ==
    \A l \in Locales :
        PastDetection(l) =>
            modes[l] = IF options.minify \/ localeMinified[l] THEN "on" ELSE "off"

\* C14: in the revision that starts all the locales at once, when the run has
\* ended and the pipeline of one locale has thrown, the pipeline of every other
\* locale has run to completion.
C14_SiblingsComplete ==
    (entry = "allSettled" /\ Ended) =>
        \A l, m \in Locales :
            (l # m /\ pc[l] = "rejected") => pc[m] = "fulfilled"

\* C15: a run that has ended exits with a non-zero status exactly when the
\* pipeline of at least one locale has thrown, and then reports the number of
\* these locales.
C15_ExitContract ==
    exit.status \in {"zero", "one"} =>
        /\ exit.status = "one" <=> Thrown # {}
        /\ Thrown # {} => exit.reported = <<Cardinality(Thrown)>>

\* C16: with a configuration that is not an array nothing is ever mutated on
\* the filesystem, and the run does not end with status zero.
C16_MalformedConfigFatal ==
    ~configIsArray => (fsLog = <<>> /\ exit.status # "zero")

(***************************************************************************)
(* Properties of the transformer.  transformIn is the module handed over,  *)
(* transformOut.text what was returned for it.  The properties read the    *)
(* definition calls off the text of the script: a definition call is an    *)
(* occurrence of "define(", its first argument starts right after it.      *)
(***************************************************************************)
Transformed == transformOut.done

IsScript == ~isText(transformIn.modulePath)

\* The scripts that do not parse are those that end in a stray brace.
Parses == ~EndsWith(transformIn.content, "}")

\* The positions (from 1) of the definition calls in the text.
DefineCalls(text) == {i \in 1..Len(text) : StartsWithAt(text, i, "define(")}

\* The number of characters up to and including the parenthesis of the call at i.
ArgumentOffset(i) == i + 6

\* The text with the name inserted as a new leading argument of the call at i.
NameInserted(text, i, name) ==
    SubSeq(text, 1, ArgumentOffset(i)) \o "'" \o name \o "', "
        \o SubSeq(text, ArgumentOffset(i) + 1, Len(text))

HasNoArgument(text, i) == StartsWithAt(text, ArgumentOffset(i) + 1, ")")

HasStringFirst(text, i) == StartsWithAt(text, ArgumentOffset(i) + 1, "'")

\* C17: for a script with one definition call, the transformer returns the
\* script with exactly '<logicalId>', inserted at the offset of the first
\* argument of the call when that argument is not a string literal, and
\* returns the script unchanged when it is one.
C17_AnonymousRewrite ==
    (Transformed /\ IsScript /\ Parses
        /\ Cardinality(DefineCalls(transformIn.content)) = 1) =>
        LET text == transformIn.content
            call == CHOOSE i \in DefineCalls(text) : TRUE
        IN  IF HasStringFirst(text, call) THEN transformOut.text = text
            ELSE IF HasNoArgument(text, call) THEN TRUE
            ELSE transformOut.text = NameInserted(text, call, transformIn.moduleName)

\* Scenario D has been transformed.
C17_Witness ==
    /\ Transformed
    /\ transformIn.moduleName = "My/Module"
    /\ transformIn.content = "define(['a'], function(a){});"
    /\ transformOut.text = "define('My/Module', ['a'], function(a){});"

\* The definition calls at the top level of a script, in order.
TopDefineCalls(text) ==
    SelectSeq(parseAst(text).body, IsDefineCall)

\* What the transformer returns when the first definition call at the top
\* level decides alone: a script without one is wrapped as a legacy script,
\* one whose first call is anonymous gets the name inserted there, any other
\* is returned as it is.
DecidedByFirstTopLevel(name, text) ==
    LET calls == TopDefineCalls(text)
    IN  IF calls = <<>> THEN wrapNonAmd(name, text)
        ELSE IF IsAnonymousCall(calls[1])
        THEN NameInserted(text, calls[1].start + 1, name)
        ELSE text

\* C18: what the transformer returns for a script that parses is decided by
\* the first definition call at its top level alone; a later definition call
\* and a definition call inside a factory neither change the class of the
\* script nor get the name inserted.
C18_FirstTopLevelOnly ==
    (Transformed /\ IsScript /\ Parses) =>
        transformOut.text = DecidedByFirstTopLevel(transformIn.moduleName, transformIn.content)

\* The text holds a definition with this name.
Named(text, name) ==
    \E i \in 1..Len(text) : StartsWithAt(text, i, "define('" \o name \o "',")

\* The text is the legacy wrapper with this name around the content.
IsLegacyWrapper(text, name, content) ==
    /\ StartsWith(text, "define('" \o name \o "', (require.s.contexts._.config.shim['" \o name \o "']")
    /\ \E i \in 1..Len(text) :
          StartsWithAt(text, i, "function() {\n\n    " \o content \o "\n\n    return (")
    /\ EndsWith(text, "}.bind(window));")

\* C19 as stated: whatever the module, what the transformer returns holds a
\* definition named with the logicalId.
C19_AlwaysNamed ==
    Transformed => Named(transformOut.text, transformIn.moduleName)

\* C19: a script that does not parse is returned inside the legacy wrapper
\* named with the logicalId; and whatever the module, what is returned either
\* holds a definition named with the logicalId or is the script itself,
\* unchanged.
C19_ParseFailureWrapped ==
    Transformed =>
        /\ (IsScript /\ ~Parses) =>
               IsLegacyWrapper(transformOut.text, transformIn.moduleName, transformIn.content)
        /\ \/ Named(transformOut.text, transformIn.moduleName)
           \/ transformOut.text = transformIn.content

\* A script that does not parse has been transformed.
C19_Witness ==
    /\ Transformed
    /\ transformIn.modulePath = "My/Module.js"
    /\ transformIn.moduleName = "My/Module"
    /\ transformIn.content = "define(['a'], function(a){});}"
    /\ StartsWith(transformOut.text, "define('My/Module', (require.s.contexts._.config.shim")

\* The text of a file before its first START sentinel (the whole text when
\* there is none).
PrecedingText(s) ==
    LET i == IndexOf(s, startMarker)
    IN  IF i = 0 THEN s ELSE SubSeq(s, 1, i - 1)

\* The text of a file after its marker region.
FollowingText(s) ==
    IF MarkerRegion(s) = "" THEN ""
    ELSE SubSeq(s, Len(PrecedingText(s)) + Len(MarkerRegion(s)) + 1, Len(s))

\* C21: two successive merges of the same fragment into the same file leave
\* the same text before the marker region and the same text after it: nothing
\* accumulates outside the region from one run to the next.
C21_WholeFileIdempotence ==
    \A k, l \in 1..Len(mergeLog) :
        (SuccessiveMerges(k, l) /\ mergeLog[k].fragment = mergeLog[l].fragment) =>
            /\ PrecedingText(mergeLog[l].after) = PrecedingText(mergeLog[k].after)
            /\ FollowingText(mergeLog[l].after) = FollowingText(mergeLog[k].after)

(***************************************************************************)
(* Further properties of the classifier.                                   *)
(***************************************************************************)
\* C26: a module that two page bundles use, that is not critical and not
\* always-common, is promoted to a shared bundle and is in no page bundle.
C26_ThresholdTwo ==
    Classified =>
        \A id \in InputIds :
            (UsageCount(id) = 2 /\ ~IsCritical(id) /\ id \notin alwaysCommon) =>
                (Promoted(id) /\ ~InPage(id))

\* The logicalIds of the returned list.
OutputIds == UNION {Range(Keys(config[i].modules)) : i \in 1..Len(config)}

\* The first page bundle of the discovery map that holds the logicalId.
FirstHolder(id) ==
    CHOOSE i \in 1..Len(discovery) :
        /\ HasKey(discovery[i].modules, id)
        /\ \A j \in 1..(i - 1) : ~HasKey(discovery[j].modules, id)

\* C25: once the classifier has returned, the logicalIds of the returned
\* bundles are exactly those of the discovery map, and every module of vendor
\* and common carries the path it has in the first page bundle that holds it.
C25_Conservation ==
    Classified =>
        /\ OutputIds = InputIds
        /\ \A b \in 1..2 : \A k \in 1..Len(config[b].modules) :
              config[b].modules[k].path =
                  Lookup(discovery[FirstHolder(config[b].modules[k].id)].modules,
                         config[b].modules[k].id)

\* A module that two page bundles record under different paths was promoted.
C25_Witness ==
    /\ Classified
    /\ \E id \in InputIds : \E i, j \in 1..Len(discovery) :
          /\ i < j
          /\ HasKey(discovery[i].modules, id)
          /\ HasKey(discovery[j].modules, id)
          /\ Lookup(discovery[i].modules, id) # Lookup(discovery[j].modules, id)
          /\ Promoted(id)

(***************************************************************************)
(* lib/bundle.js: processLocale for one locale, from the cleaning of the   *)
(* output directory on, with the mode of the locale as an input.  `pc`     *)
(* holds the position of the one call: "pending", "bundling" (the output   *)
(* directory is clean and the compilations are under way), "injected" or   *)
(* "rejected".                                                             *)
(***************************************************************************)
\* Promise.all over the promises of the processBundle calls: n calls, of
\* which those in `results` have settled.
PromiseAll_Any(results, n) ==
    IF \E i \in DOMAIN results : results[i].status = "rejected" THEN "rejected"
    ELSE IF DOMAIN results # {} THEN "fulfilled"
    ELSE "pending"

PromiseAll(results, n) ==
    IF \E i \in DOMAIN results : results[i].status = "rejected" THEN "rejected"
    ELSE IF DOMAIN results = 1..n THEN "fulfilled"
    ELSE "pending"

\* What an earlier run left in <locale>/magepack.
StaleFiles == [f \in {"bundle-old.js"} |-> "stale"]

LocaleDisks == {{}, {"slick.js"}, {"Acme_Shop/tpl.html", "Stripe_Pay/js/sdk.js"}, DiskUniverse}

InitLocale ==
    /\ ClassifierIdle
    /\ config \in BundleConfigs
    /\ disk \in LocaleDisks
    /\ mapFile \in {"absent", "valid", "malformed"}
    /\ options = DefaultOptions
    /\ isMinifyOn \in BOOLEAN
    /\ terser = "ok"
    /\ magepack \in {<<>>, StaleFiles}
    /\ runs = <<>>
    /\ \E present \in SUBSET {REQUIREJS_CONFIG, REQUIREJS_CONFIG_MIN} :
          configFiles = [f \in present |-> "var a=1;"]
    /\ mergeLog = <<>>
    /\ injections = <<>>
    /\ fragmentLog = <<>>
    /\ entry = "allSettled"
    /\ configIsArray = TRUE
    /\ localeMinified = <<>>
    /\ pc = <<"pending">>
    /\ modes = <<>>
    /\ fsLog = <<>>
    /\ exit = NotExited
    /\ TransformerIdle
    /\ CrawlerIdle

\* cleanMagepackDirectory(localePath): fs.rm and fs.mkdir; when they throw the
\* directory stays as it is and a warning is logged.
cleanMagepackDirectory(dir, removed) ==
    IF removed
    THEN [dir |-> <<>>, log |-> [locale |-> 1, op |-> "rm magepack"]]
    ELSE [dir |-> dir, log |-> [locale |-> 1, op |-> "warn"]]

\* await cleanMagepackDirectory(localePath)
CleanMagepackDirectory ==
    /\ pc[1] = "pending"
    /\ \E removed \in BOOLEAN :
          /\ magepack' = cleanMagepackDirectory(magepack, removed).dir
          /\ fsLog' = Append(fsLog, cleanMagepackDirectory(magepack, removed).log)
    /\ pc' = <<"bundling">>
    /\ UNCHANGED <<classifierVars, config, disk, mapFile, options, isMinifyOn, terser, runs,
                   mergerVars, entry, configIsArray, localeMinified, modes, exit,
                   transformVars, crawlVars>>

\* One of the processBundle calls of config.map runs to its end; the calls
\* that are under way go on after Promise.all has rejected.
CompileBundle(i) ==
    /\ pc[1] \in {"bundling", "rejected"}
    /\ ProcessBundle(i)

\* Promise.all has fulfilled: buildRequireConfigContent and injectConfigIntoMain.
InjectFragment ==
    /\ pc[1] = "bundling"
    /\ PromiseAll(runs, Len(config)) = "fulfilled"
    /\ injectConfigIntoMain(isMinifyOn, buildRequireConfigContent(config, isMinifyOn))
    /\ pc' = <<"injected">>
    /\ UNCHANGED <<classifierVars, config, compilerVars, entry, configIsArray, localeMinified,
                   modes, fsLog, exit, transformVars, crawlVars>>

\* Promise.all has rejected: the catch block logs and rethrows.
RejectLocale ==
    /\ pc[1] = "bundling"
    /\ PromiseAll(runs, Len(config)) = "rejected"
    /\ pc' = <<"rejected">>
    /\ UNCHANGED <<classifierVars, config, compilerVars, mergerVars, entry, configIsArray,
                   localeMinified, modes, fsLog, exit, transformVars, crawlVars>>

NextLocale ==
    \/ CleanMagepackDirectory
    \/ \E i \in 1..Len(config) : CompileBundle(i)
    \/ InjectFragment
    \/ RejectLocale

SpecLocale == InitLocale /\ [][NextLocale]_vars

(***************************************************************************)
(* lib/generate/blockMagepack.js: the request interceptor.  A request is   *)
(* {url, pc, calls, threw}: where its handler is, the methods of the       *)
(* request it has invoked, in order, and those of them that threw.         *)
(***************************************************************************)
\* url.includes('requirejs-config') && url.endsWith('.js')
IsConfigRequest(url) == Includes(url, "requirejs-config") /\ EndsWith(url, ".js")

\* url.includes('magepack/bundle-')
IsBundleRequest(url) == Includes(url, "magepack/bundle-")

\* The handler from its start to its first await of something outside the
\* browser, or to its end: abortOk and continueOk tell whether the call of
\* that name succeeds.
handleRequest(request, abortOk, continueOk) ==
    IF IsConfigRequest(request.url)
    THEN [request EXCEPT !.pc = "fetching"]
    ELSE IF IsBundleRequest(request.url)
    THEN [request EXCEPT !.calls = Append(@, "abort"),
                         !.threw = IF abortOk THEN @ ELSE Append(@, "abort"),
                         !.pc = IF abortOk THEN "returned" ELSE "rejected"]
    ELSE [request EXCEPT !.calls = Append(@, "continue"),
                         !.threw = IF continueOk THEN @ ELSE Append(@, "continue"),
                         !.pc = "returned"]

\* The try block of the configuration branch once fetchOriginalContent has
\* settled, and its catch block.
sanitizeRequest(request, fetched, respondOk, continueOk) ==
    IF fetched /\ respondOk
    THEN [request EXCEPT !.calls = Append(@, "respond"), !.pc = "returned"]
    ELSE LET tried == IF fetched THEN <<"respond">> ELSE <<>>
         IN  [request EXCEPT !.calls = @ \o tried \o <<"continue">>,
                             !.threw = @ \o tried
                                         \o (IF continueOk THEN <<>> ELSE <<"continue">>),
                             !.pc = IF continueOk THEN "returned" ELSE "rejected"]

InterceptedUrls ==
    {"/requirejs-config.js", "/requirejs-config.min.js", "/requirejs-config.js?v=1",
     "/magepack/bundle-common.js", "/magepack/bundle-requirejs-config.js", "/app.js"}

InitIntercept ==
    /\ ClassifierIdle
    /\ config = <<>>
    /\ CompilerIdle
    /\ MergerIdle
    /\ entry = "allSettled"
    /\ configIsArray = TRUE
    /\ localeMinified = <<>>
    /\ pc = <<>>
    /\ modes = <<>>
    /\ fsLog = <<>>
    /\ exit = NotExited
    /\ TransformerIdle
    /\ WaitIdle
    /\ \E urls \in [1..MaxIntercepted -> InterceptedUrls] :
          interception = [r \in 1..MaxIntercepted |->
                             [url |-> urls[r], pc |-> "emitted", calls |-> <<>>, threw |-> <<>>]]

\* page.on('request', async (request) => ...): the page hands over a request.
Intercept(r) ==
    /\ interception[r].pc = "emitted"
    /\ \E abortOk, continueOk \in BOOLEAN :
          interception' = [interception EXCEPT ![r] = handleRequest(@, abortOk, continueOk)]
    /\ UNCHANGED <<otherVars, clock, requests, network, latestStart, waitVars>>

\* fetchOriginalContent resolves or rejects and the handler runs to its end.
FetchSettles(r) ==
    /\ interception[r].pc = "fetching"
    /\ \E fetched, respondOk, continueOk \in BOOLEAN :
          interception' =
              [interception EXCEPT ![r] = sanitizeRequest(@, fetched, respondOk, continueOk)]
    /\ UNCHANGED <<otherVars, clock, requests, network, latestStart, waitVars>>

NextIntercept ==
    \/ \E r \in DOMAIN interception : Intercept(r)
    \/ \E r \in DOMAIN interception : FetchSettles(r)

SpecIntercept == InitIntercept /\ [][NextIntercept]_vars

(***************************************************************************)
(* Properties of waitForNetworkStability.                                  *)
(***************************************************************************)
StabilityReached == done.state = "resolved"

\* C27: waitForNetworkStability resolves only at a moment when no counted
\* request is in flight (started, and neither finished nor failed) and no
\* counted request has started during the preceding idleMs, whatever the
\* interleaving of the request, requestfinished and requestfailed events.
C27_ResolvesOnlyWhenStable == StabilityReached => done.pending = {} /\ done.quiet >= idleMs

\* C28: waitForNetworkStability settles exactly once: it resolves on
\* stability or rejects once timeoutMs has elapsed, it does not stay pending
\* forever, and once it is settled the three listeners are detached and both
\* timers are cleared, so that no later event or timer changes the outcome.
C28_SettlesExactlyOnce ==
    /\ [](done.calls <= 1)
    /\ [](done.state = "rejected" => done.at >= timeoutMs)
    /\ [](done.state # "pending" =>
              ~listening /\ idleTimer = NoTimer /\ timeout = NoTimer)
    /\ [][done.state # "pending" => done' = done]_vars
    /\ <>(done.state # "pending")

\* The wait was rejected by the hard timeout and the page started a counted
\* request after that.
C28_Witness == done.state = "rejected" /\ latestStart > done.at

(***************************************************************************)
(* The merger's output as the crawler's interceptor serves it.             *)
(***************************************************************************)
\* C29: whatever the merger has written, after any number of merges, the body
\* the interceptor serves for it (the file's content, sanitized) contains
\* neither the START nor the END sentinel.
C29_SanitizedHoldsNoSentinel ==
    \A k \in DOMAIN mergeLog :
        LET body == cleanedContent(mergeLog[k].after)
        IN  ~Includes(body, startMarker) /\ ~Includes(body, endMarker)

\* A file merged into for the second time holds the sentinels, and host
\* content besides, which is what the interceptor serves.
C29_Witness ==
    \E k, l \in DOMAIN mergeLog :
        /\ SuccessiveMerges(k, l)
        /\ Includes(mergeLog[l].after, startMarker)
        /\ Includes(mergeLog[l].after, endMarker)
        /\ cleanedContent(mergeLog[l].after) # ""

(***************************************************************************)
(* Properties of the request interceptor.                                  *)
(***************************************************************************)
HandlerEnded(r) == interception[r].pc \in {"returned", "rejected"}

\* C30: every intercepted request is settled exactly once: its handler invokes
\* exactly one of respond, abort and continue, also when fetching the original
\* configuration fails and when responding fails; and a request for a
\* magepack/bundle- file that is not a configuration request is aborted and
\* never continued.
C30_SettledExactlyOnce ==
    \A r \in DOMAIN interception :
        HandlerEnded(r) =>
            /\ Len(interception[r].calls) = 1
            /\ (IsBundleRequest(interception[r].url) /\ ~IsConfigRequest(interception[r].url))
                   => interception[r].calls = <<"abort">>

(***************************************************************************)
(* Properties of processLocale: what the fragment advertises against what  *)
(* the compilations of the same call wrote, and the order of the steps.    *)
(***************************************************************************)
\* The fragment of the call has been merged into a configuration file.
FragmentInjected ==
    /\ pc[1] = "injected"
    /\ mergeLog # <<>>
    /\ mergeLog[1].fragment = buildRequireConfigContent(config, isMinifyOn)

\* The entries of the bundles map of that fragment: its keys, and under the
\* key of the bundle at index i of the configuration the members listed.
AdvertisedEntries ==
    LET named == NamedBundles(config)
    IN  BundlesMap(config, [k \in 1..Len(named) |-> bundleId(named[k])])

AdvertisedIds == {AdvertisedEntries[k].key : k \in DOMAIN AdvertisedEntries}

ListedMembers(i) ==
    [m \in 1..Len(config[i].modules) |-> StripJsExtension(config[i].modules[m].id)]

DirectoryRemoved == fsLog # <<>> /\ fsLog[1].op = "rm magepack"

====
